---- MODULE Spec2Model ----
(***************************************************************************)
(* Traffic-cycle accounting of hetzner-web (src/main.py): the delta        *)
(* engine, the cycle accounting engine, the persisted snapshot series, the *)
(* rebuild lock, the snapshot merge and the aggregation views; and its     *)
(* control loops: the traffic monitor, the DNS update after a rebuild,     *)
(* HetznerClient.rebuild_server and the scheduler.                         *)
(*                                                                         *)
(* Numbers.  A traffic reading is a byte count.  TLC's integers are 32 bit *)
(* wide and 1 TB = 1024^4 bytes does not fit, so a reading is held as a    *)
(* count of MiB (2^20 bytes); 1 TB is then 1024 * 1024 MiB.  For byte      *)
(* counts below 2^53 the code's float subtraction and its Decimal division *)
(* are exact, so integer arithmetic on the counts is what the code         *)
(* computes.  A Decimal is held as an integer number of 10^-6 TB, so that  *)
(* a value with exactly three fractional digits is a multiple of Milli and *)
(* quantizing is an operation that can change a value.                     *)
(***************************************************************************)
EXTENDS Integers, Sequences, FiniteSets, TLC

VARIABLES
    \* SpecDelta: the two snapshots, the result, the position of the call
    prev, curr, aggregates, dpc,
    \* SpecCycle: the series, the arguments, the result, the position
    hourly, include_ids, name_map, cycle, cpc,
    \* SpecStore: the persisted report state (REPORT_STATE_PATH), the local
    \* clock in hours, the last operation and whether its
    \* _record_hourly_snapshot collected a snapshot
    report_state, now, op, rec_collected,
    \* SpecRebuild: REBUILD_LOCKS, and per thread its position, the server it
    \* rebuilds, the result of its last call, and the notifications sent and
    \* the rebuild_server calls made by that call; the telegram setting
    locks, pc, target, result, sent, calls, telegram,
    \* SpecViews: the stored series state["hourly"], the view computed from
    \* it, its argument (the tracking start, the provider's servers) and the
    \* position (the view that was computed)
    vhourly, varg, view, vpc,
    \* SpecMonitor: ALERT_STATE, the configuration read by the loop, the
    \* position in the body of the loop, the server in hand, and what the
    \* pass for that server has done so far
    ALERT_STATE, mcfg, mpc, mcur, mlog,
    \* SpecReplace: cloudflare.record_map, the servers that exist, the
    \* identifiers that are the configured server or a replacement of it,
    \* the last rebuild call, and the identifier of the next server created
    record_map, fleet, lineage, last_rebuild, next_id,
    \* SpecRebuildServer: the locals and position of a rebuild_server call
    \* and the requests it has issued
    rs, api_log,
    \* SpecSchedule: SCHEDULE_STATE["last_task_runs"], the local clock, the
    \* position of the loop and the executions of each task
    last_runs, clock, spc, executed

deltaVars == <<prev, curr, aggregates, dpc>>
cycleVars == <<hourly, include_ids, name_map, cycle, cpc>>
storeVars == <<report_state, now, op, rec_collected>>
rebuildVars == <<locks, pc, target, result, sent, calls, telegram>>
viewVars == <<vhourly, varg, view, vpc>>
monitorVars == <<ALERT_STATE, mcfg, mpc, mcur, mlog>>
replaceVars == <<record_map, fleet, lineage, last_rebuild, next_id>>
serverVars == <<rs, api_log>>
scheduleVars == <<last_runs, clock, spc, executed>>
controlVars == <<monitorVars, replaceVars, serverVars, scheduleVars>>
vars == <<deltaVars, cycleVars, storeVars, rebuildVars, viewVars, controlVars>>

(***************************************************************************)
(* Values                                                                  *)
(***************************************************************************)

\* Python's None for a missing counter (dict.get without the key).
None == -1

\* A counter value that float() rejects, such as the string "n/a".
Bad == -2

\* Decimal("0.001"), in units of 10^-6 TB.
Milli == 1000

\* Decimal(1024) ** 4 bytes, counted in MiB.
UnitsPerTB == 1024 * 1024

\* A falsy display name: the key is missing, None or "".
NoName == ""

Ids == {"1", "2"}

EmptyMap == [x \in {} |-> None]

\* The map f with every entry computed once (TLC evaluates a function
\* expression anew at each application).
Evaluated(f) == f @@ EmptyMap

\* The least and the greatest element of a set of hours.
Least(S) == CHOOSE x \in S : \A y \in S : x <= y
Greatest(S) == CHOOSE x \in S : \A y \in S : y <= x

\* The variables of a part that a specification leaves alone.
DeltaUnused ==
    prev = EmptyMap /\ curr = EmptyMap /\ aggregates = EmptyMap /\ dpc = "unused"

CycleUnused ==
    /\ hourly = EmptyMap /\ include_ids = {} /\ name_map = EmptyMap
    /\ cycle = EmptyMap /\ cpc = "unused"

StoreUnused ==
    /\ report_state = EmptyMap /\ now = 0 /\ op = "unused" /\ rec_collected = FALSE

RebuildUnused ==
    /\ locks = EmptyMap /\ pc = EmptyMap /\ target = EmptyMap /\ result = EmptyMap
    /\ sent = EmptyMap /\ calls = EmptyMap /\ telegram = FALSE

ViewUnused ==
    vhourly = EmptyMap /\ varg = None /\ view = EmptyMap /\ vpc = "unused"

MonitorUnused ==
    /\ ALERT_STATE = EmptyMap /\ mcfg = EmptyMap /\ mpc = "unused"
    /\ mcur = EmptyMap /\ mlog = EmptyMap

ReplaceUnused ==
    /\ record_map = EmptyMap /\ fleet = {} /\ lineage = {}
    /\ last_rebuild = EmptyMap /\ next_id = 0

ServerUnused == rs = EmptyMap /\ api_log = <<>>

ScheduleUnused ==
    last_runs = EmptyMap /\ clock = EmptyMap /\ spc = "unused" /\ executed = EmptyMap

ControlUnused == MonitorUnused /\ ReplaceUnused /\ ServerUnused /\ ScheduleUnused

\* value.quantize(Decimal("0.001"), rounding=ROUND_HALF_UP) of a value >= 0
_quantize_tb(value) == ((value + Milli \div 2) \div Milli) * Milli

\* The mutant of _bytes_to_tb: the quotient is truncated (ROUND_DOWN).
BytesToTbTruncated(value_bytes) == ((value_bytes \div UnitsPerTB) * 1000
                                    + ((value_bytes % UnitsPerTB) * 1000) \div UnitsPerTB) * Milli

\* (Decimal(value_bytes) / 1024^4).quantize(Decimal("0.001"), ROUND_HALF_UP):
\* the whole TB and the half-up rounded thousandths of the rest.
_bytes_to_tb(value_bytes) ==
    LET whole == value_bytes \div UnitsPerTB
        rest == value_bytes % UnitsPerTB
    IN (whole * 1000 + (2 * rest * 1000 + UnitsPerTB) \div (2 * UnitsPerTB)) * Milli

(***************************************************************************)
(* Snapshots: identifier -> reading                                        *)
(***************************************************************************)

\* Readings with the given names and counters.
ReadingsOf(names, outs, ins) == [name : names, outbound_bytes : outs, inbound_bytes : ins]

\* Snapshots over the identifiers of S, each present or not.
SnapshotsOf(S, readings) == UNION {[D -> readings] : D \in SUBSET S}

\* prev.get(sid, {}): the reading of sid, or one with every field missing.
GetReading(snapshot, sid) ==
    IF sid \in DOMAIN snapshot THEN snapshot[sid]
    ELSE [name |-> NoName, outbound_bytes |-> None, inbound_bytes |-> None]

(***************************************************************************)
(* Delta engine: _delta_by_name                                            *)
(***************************************************************************)

\* The mutant of DeltaName: the name of the earlier reading is not used.
DeltaNameCurrOnly(p, c, sid) ==
    IF c[sid].name # NoName THEN c[sid].name ELSE sid

\* data.get("name") or prev_data.get("name") or str(sid)
DeltaName(p, c, sid) ==
    IF c[sid].name # NoName THEN c[sid].name
    ELSE IF GetReading(p, sid).name # NoName THEN GetReading(p, sid).name
    ELSE sid

\* The mutant of CounterDelta: the difference is taken whenever both
\* readings are present, without the test curr >= prev.
CounterDeltaUnguarded(prev_val, curr_val) ==
    IF prev_val # None /\ curr_val # None
    THEN (IF curr_val >= prev_val THEN _bytes_to_tb(curr_val - prev_val)
          ELSE 0 - _bytes_to_tb(prev_val - curr_val))
    ELSE None

\* out_delta / in_delta: _bytes_to_tb(curr - prev) when both readings are
\* present and curr >= prev, else None.
CounterDelta(prev_val, curr_val) ==
    IF prev_val # None /\ curr_val # None /\ curr_val >= prev_val
    THEN _bytes_to_tb(curr_val - prev_val)
    ELSE None

\* float(curr_val) >= float(prev_val), reached when both readings are
\* present, raises ValueError when one of them is not a number.
FloatRaises(prev_val, curr_val) ==
    prev_val # None /\ curr_val # None /\ (curr_val = Bad \/ prev_val = Bad)

\* The call _delta_by_name(p, c) ends with an exception: a comparison of
\* lines 193 and 195 raises for some identifier of curr.
DeltaRaises(p, c) ==
    \E sid \in DOMAIN c :
        \/ FloatRaises(GetReading(p, sid).outbound_bytes, c[sid].outbound_bytes)
        \/ FloatRaises(GetReading(p, sid).inbound_bytes, c[sid].inbound_bytes)

OutDelta(p, c, sid) ==
    CounterDelta(GetReading(p, sid).outbound_bytes, c[sid].outbound_bytes)

InDelta(p, c, sid) ==
    CounterDelta(GetReading(p, sid).inbound_bytes, c[sid].inbound_bytes)

\* The sum of the deltas d[sid] that are not None, sid in S.
RECURSIVE SumDeltas(_, _)
SumDeltas(S, d) ==
    IF S = {} THEN 0
    ELSE LET sid == CHOOSE x \in S : TRUE
         IN (IF d[sid] # None THEN d[sid] ELSE 0) + SumDeltas(S \ {sid}, d)

\* The entry of one name: created by setdefault with 0.000 and False, then
\* every identifier of sids adds the deltas it has.
DeltaEntry(sids, outd, ind) ==
    [out |-> SumDeltas(sids, outd),
     in |-> SumDeltas(sids, ind),
     has_out |-> \E sid \in sids : outd[sid] # None,
     has_in |-> \E sid \in sids : ind[sid] # None]

\* The loop over curr.items(): one entry per resolved name, to which the
\* identifiers that resolve to the name contribute.
_delta_by_name(p, c) ==
    LET names == {DeltaName(p, c, sid) : sid \in DOMAIN c}
        outd == Evaluated([sid \in DOMAIN c |-> OutDelta(p, c, sid)])
        ind == Evaluated([sid \in DOMAIN c |-> InDelta(p, c, sid)])
    IN [n \in names |->
          DeltaEntry({sid \in DOMAIN c : DeltaName(p, c, sid) = n}, outd, ind)]

(***************************************************************************)
(* Cycle accounting engine: _compute_cycle_data                            *)
(***************************************************************************)

\* The number of hour buckets a series holds at most.
MaxHours == 3

\* The hour of the first bucket.  An hour bucket "YYYY-MM-DD HH:00" is held
\* as its number of hours since a midnight: the labels sort as the numbers
\* do, the hour of day is the number modulo 24, the date the quotient.
FirstHour == 22

\* datetime.strptime(key, "%Y-%m-%d %H:%M").hour
_parse_hour(key) == key % 24

\* sorted(hourly.keys())
RECURSIVE SortedKeys(_)
SortedKeys(S) ==
    IF S = {} THEN <<>>
    ELSE LET least == CHOOSE x \in S : \A y \in S : x <= y
         IN <<least>> \o SortedKeys(S \ {least})

\* The mutant of IsRebuild: an unchanged counter counts as a reset too.
IsRebuildOrEqual(p, c, sid) ==
    /\ sid \in DOMAIN p /\ sid \in DOMAIN c
    /\ p[sid].outbound_bytes # None /\ c[sid].outbound_bytes # None
    /\ c[sid].outbound_bytes <= p[sid].outbound_bytes

\* rebuild: both buckets hold the identifier, both outbound readings are
\* present and the later one is smaller.
IsRebuild(p, c, sid) ==
    /\ sid \in DOMAIN p /\ sid \in DOMAIN c
    /\ p[sid].outbound_bytes # None /\ c[sid].outbound_bytes # None
    /\ c[sid].outbound_bytes < p[sid].outbound_bytes

\* The mutant of ResetOnRebuild: the age is zeroed and the hour recorded, the
\* cumulative usage is kept.
ResetAgeOnly(st, rebuild, curr_key) ==
    IF rebuild
    THEN [st EXCEPT !.cycle_age = 0, !.rebuilds = Append(@, curr_key)]
    ELSE st

\* Another mutant of ResetOnRebuild: the cumulative usage is zeroed and the
\* hour recorded, the age is kept.
ResetOutOnly(st, rebuild, curr_key) ==
    IF rebuild
    THEN [st EXCEPT !.cycle_out = 0, !.rebuilds = Append(@, curr_key)]
    ELSE st

\* if rebuild: cycle_out = 0.000; cycle_age = 0; rebuilds.append(curr_key)
ResetOnRebuild(st, rebuild, curr_key) ==
    IF rebuild
    THEN [st EXCEPT !.cycle_out = 0, !.cycle_age = 0, !.rebuilds = Append(@, curr_key)]
    ELSE st

\* deltas = _delta_by_name(prev, curr); data = deltas.get(sid, {});
\* total_out = data["out"] if data.get("has_out") else 0.000.  The entries of
\* deltas are keyed by display name and are looked up by identifier.
HourTotalOut(p, c, sid) ==
    LET deltas == _delta_by_name(p, c)
        data == IF sid \in DOMAIN deltas THEN deltas[sid]
                ELSE [out |-> 0, in |-> 0, has_out |-> FALSE, has_in |-> FALSE]
    IN IF data.has_out THEN data.out ELSE 0

\* name = name_map.get(str(sid)) if name_map else None
CycleStart(sid, nmap) ==
    [cycle_out |-> 0, cycle_age |-> 0, points |-> <<>>, rebuilds |-> <<>>,
     name |-> IF sid \in DOMAIN nmap THEN nmap[sid] ELSE NoName]

\* One pass of the loop over range(1, len(keys)) for one identifier.
CycleStep(series, prev_key, curr_key, sid, st) ==
    LET p == series[prev_key]
        c == series[curr_key]
        named == IF sid \in DOMAIN c /\ st.name = NoName
                 THEN [st EXCEPT !.name = IF c[sid].name # NoName THEN c[sid].name ELSE sid]
                 ELSE st
        reset == ResetOnRebuild(named, IsRebuild(p, c, sid), curr_key)
        total_out == HourTotalOut(p, c, sid)
        cycle_out == _quantize_tb(reset.cycle_out + total_out)
        point == [time |-> curr_key,
                  out_tb_h |-> _quantize_tb(total_out),
                  cycle_out_cum_tb |-> cycle_out,
                  cycle_age_h |-> reset.cycle_age,
                  hour_of_day |-> _parse_hour(curr_key)]
    IN [reset EXCEPT !.cycle_out = cycle_out,
                     !.points = Append(@, point),
                     !.cycle_age = @ + 1]

\* The loop from transition i on.  The state after a pass is computed before
\* the next pass begins (its cycle_age is at least 1).
RECURSIVE CycleWalk(_, _, _, _, _)
CycleWalk(series, keys, sid, i, st) ==
    IF i > Len(keys) THEN st
    ELSE LET after == CycleStep(series, keys[i - 1], keys[i], sid, st)
         IN IF after.cycle_age > 0
            THEN CycleWalk(series, keys, sid, i + 1, after)
            ELSE after

\* servers[str(sid)] = {"name": name or str(sid), "points": points,
\* "rebuilds": rebuilds}, from the state the loop ended in.
CycleEntry(sid, st) ==
    [name |-> IF st.name # NoName THEN st.name ELSE sid,
     points |-> st.points,
     rebuilds |-> st.rebuilds]

\* _compute_cycle_data(hourly, include_ids, name_map).  An include_ids or a
\* name_map that is None or empty is falsy, and is held as the empty set or
\* map.  The result is the "servers" object; a server is kept "if points".
_compute_cycle_data(series, inc, nmap) ==
    LET keys == SortedKeys(DOMAIN series)
        seen == UNION {DOMAIN series[k] : k \in DOMAIN series}
        server_ids == IF inc # {} THEN {sid \in seen : sid \in inc} ELSE seen
        servers == Evaluated([sid \in server_ids |->
                       CycleEntry(sid, CycleWalk(series, keys, sid, 2, CycleStart(sid, nmap)))])
    IN IF Len(keys) < 2 THEN EmptyMap
       ELSE [sid \in {o \in server_ids : servers[o].points # <<>>} |-> servers[sid]]

\* GET /api/cycle: include_ids and name_map are built from the servers the
\* provider lists (identifier -> name, NoName when it has none).
api_cycle(series, servers) ==
    _compute_cycle_data(series, DOMAIN servers,
                        [sid \in DOMAIN servers |->
                            IF servers[sid] # NoName THEN servers[sid] ELSE sid])

\* What client.get_servers() may list: no server, or server "2" alone.
ApiServers == {EmptyMap, [sid \in {"2"} |-> "two"]}

(***************************************************************************)
(* SpecCycle: _compute_cycle_data applied to a series                      *)
(***************************************************************************)

TB == UnitsPerTB

\* The buckets of a series of n hours.
HourKeys(n) == FirstHour .. (FirstHour + n - 1)

CycleOuts == {TB, 2 * TB, 5 * TB}

\* Server "1" with or without a display name and with every counter, or
\* with no counter; server "2" as a second server that carries the display
\* name "1" and grows.
CycleReadings(sid) ==
    IF sid = "1"
    THEN ReadingsOf({NoName, "srv"}, CycleOuts, {None})
            \cup ReadingsOf({NoName}, {None}, {None})
    ELSE ReadingsOf({"1"}, {TB, 2 * TB}, {None})

CycleSnapshots ==
    {s \in SnapshotsOf(Ids, UNION {CycleReadings(sid) : sid \in Ids}) :
        \A sid \in DOMAIN s : s[sid] \in CycleReadings(sid)}

CycleSeries == UNION {[HourKeys(n) -> CycleSnapshots] : n \in 0 .. MaxHours}

\* The arguments of a call: the defaults, or those /api/cycle builds when
\* server "1" exists under the name main.
CycleArgs ==
    {[inc |-> {}, nmap |-> EmptyMap],
     [inc |-> {"1"}, nmap |-> [sid \in {"1"} |-> "main"]]}

InitCycle ==
    /\ hourly \in CycleSeries
    /\ include_ids = {}
    /\ name_map = EmptyMap
    /\ cycle = EmptyMap
    /\ cpc = "call"
    /\ DeltaUnused /\ StoreUnused /\ RebuildUnused /\ ViewUnused /\ ControlUnused

ComputeCycleData ==
    /\ cpc = "call"
    /\ \E args \in CycleArgs :
          /\ include_ids' = args.inc
          /\ name_map' = args.nmap
          /\ cycle' = _compute_cycle_data(hourly, args.inc, args.nmap)
    /\ cpc' = "done"
    /\ UNCHANGED <<hourly, deltaVars, storeVars, rebuildVars, viewVars, controlVars>>

NextCycle == ComputeCycleData

SpecCycle == InitCycle /\ [][NextCycle]_vars

(***************************************************************************)
(* SpecDelta: _delta_by_name applied to two snapshots                      *)
(***************************************************************************)

DeltaNames == {NoName, "web", "1"}
DeltaOuts == {None, 0, 65536, 1048576}
DeltaIns == {None, 0, 1048576}
DeltaSnapshots == SnapshotsOf(Ids, ReadingsOf(DeltaNames, DeltaOuts, DeltaIns))

\* Snapshots with a malformed reading: server "1" is well formed and grows,
\* server "2", named db, reports counters that are missing or not numbers.
MalformedReadings(sid) ==
    IF sid = "1" THEN ReadingsOf({"web"}, {0, TB}, {0})
    ELSE ReadingsOf({"db"}, {None, 0, Bad}, {0, Bad})

MalformedSnapshots ==
    {s \in SnapshotsOf(Ids, UNION {MalformedReadings(sid) : sid \in Ids}) :
        /\ "1" \in DOMAIN s
        /\ \A sid \in DOMAIN s : s[sid] \in MalformedReadings(sid)}

InitDelta ==
    /\ \/ prev \in DeltaSnapshots /\ curr \in DeltaSnapshots
       \/ prev \in MalformedSnapshots /\ curr \in MalformedSnapshots
    /\ aggregates = EmptyMap
    /\ dpc = "call"
    /\ CycleUnused /\ StoreUnused /\ RebuildUnused /\ ViewUnused /\ ControlUnused

\* The call either raises, leaving no result, or returns the aggregates.
DeltaByName ==
    /\ dpc = "call"
    /\ IF DeltaRaises(prev, curr)
       THEN aggregates' = EmptyMap /\ dpc' = "raised"
       ELSE aggregates' = _delta_by_name(prev, curr) /\ dpc' = "done"
    /\ UNCHANGED <<prev, curr, cycleVars, storeVars, rebuildVars, viewVars, controlVars>>

NextDelta == DeltaByName

SpecDelta == InitDelta /\ [][NextDelta]_vars

(***************************************************************************)
(* Snapshot store: _record_hourly_snapshot, /report, /reportreset          *)
(***************************************************************************)

\* The report state of a missing or reset file: {}.  state.get("hourly", {}),
\* state.get("last_time") and state.get("servers", {}) of it.
EmptyState == [hourly |-> EmptyMap, last_time |-> None, servers |-> EmptyMap]

\* The mutant of _record_hourly_snapshot: the snapshot is collected and
\* stored whether or not the bucket exists.
RecordAlways(state, hour_key, snapshot) ==
    [state |-> [state EXCEPT !.hourly =
                   [k \in DOMAIN state.hourly \cup {hour_key} |->
                       IF k = hour_key THEN snapshot ELSE state.hourly[k]]],
     collected |-> TRUE]

\* _record_hourly_snapshot(state, now, client): nothing when the bucket of
\* the hour exists; else the bucket is set to the snapshot collected from
\* the provider.  The result is the state and whether a snapshot was
\* collected.
_record_hourly_snapshot(state, hour_key, snapshot) ==
    IF hour_key \in DOMAIN state.hourly
    THEN [state |-> state, collected |-> FALSE]
    ELSE [state |-> [state EXCEPT !.hourly =
                        [k \in DOMAIN state.hourly \cup {hour_key} |->
                            IF k = hour_key THEN snapshot ELSE state.hourly[k]]],
          collected |-> TRUE]

\* What _collect_traffic_snapshot may return: the servers the provider
\* lists, each with a name (line 683 falls back to the identifier).
ProviderSnapshots ==
    {EmptyMap,
     [sid \in {"1"} |-> [name |-> "srv", outbound_bytes |-> TB, inbound_bytes |-> 0]],
     [sid \in {"1"} |-> [name |-> "srv", outbound_bytes |-> 2 * TB, inbound_bytes |-> 0]],
     [sid \in Ids |-> [name |-> IF sid = "1" THEN "srv" ELSE "2",
                       outbound_bytes |-> IF sid = "1" THEN TB ELSE None,
                       inbound_bytes |-> None]]}

InitStore ==
    /\ report_state = EmptyState
    /\ now = FirstHour
    /\ op = "start"
    /\ rec_collected = FALSE
    /\ DeltaUnused /\ CycleUnused /\ RebuildUnused /\ ViewUnused /\ ControlUnused

\* The local clock passes into the next hour.
Tick ==
    /\ now < FirstHour + MaxHours - 1
    /\ now' = now + 1
    /\ op' = "tick"
    /\ UNCHANGED <<report_state, rec_collected, deltaVars, cycleVars, rebuildVars, viewVars, controlVars>>

\* /report, _build_manual_report to its end: the state is loaded, the hour's
\* snapshot recorded, a current snapshot collected, and the state saved with
\* last_time and servers set.
ManualReport ==
    /\ \E recorded \in ProviderSnapshots, current_snapshot \in ProviderSnapshots :
          LET rec == _record_hourly_snapshot(report_state, now, recorded)
          IN /\ report_state' = [rec.state EXCEPT !.last_time = now,
                                                  !.servers = current_snapshot]
             /\ rec_collected' = rec.collected
    /\ op' = "report"
    /\ UNCHANGED <<now, deltaVars, cycleVars, rebuildVars, viewVars, controlVars>>

\* /report when the provider fails (get_servers raises): the handler ends
\* before _save_report_state.
ManualReportFails ==
    /\ op' = "report_failed"
    /\ UNCHANGED <<report_state, now, rec_collected, deltaVars, cycleVars, rebuildVars, viewVars, controlVars>>

\* /reportreset: _save_report_state({})
ReportReset ==
    /\ report_state' = EmptyState
    /\ op' = "reportreset"
    /\ UNCHANGED <<now, rec_collected, deltaVars, cycleVars, rebuildVars, viewVars, controlVars>>

NextStore ==
    \/ Tick
    \/ ManualReport
    \/ ManualReportFails
    \/ ReportReset

SpecStore == InitStore /\ [][NextStore]_vars

(***************************************************************************)
(* Rebuilds: _perform_rebuild, /api/rebuild, /rebuild, the traffic monitor *)
(***************************************************************************)

\* The threads that trigger rebuilds: the event loop that runs the handler
\* of POST /api/rebuild (an async def without await after the request is
\* read, so one request at a time), the telegram bot loop and the traffic
\* monitor loop.
Procs == {"http", "bot", "monitor"}

\* The threads that rebuild through _perform_rebuild.
LockedProcs == {"bot", "monitor"}

\* A lock nobody holds.
Free == "free"

\* A thread that has not been asked for a rebuild yet.
NoTarget == "none"

\* The mutant of TryAcquire: the lock is taken whoever holds it.
TryAcquireAlways(lk, sid) == TRUE

\* lock.acquire(blocking=False) on REBUILD_LOCKS.setdefault(str(server_id),
\* threading.Lock()): whether the lock is acquired.
TryAcquire(lk, sid) == sid \notin DOMAIN lk \/ lk[sid] = Free

\* REBUILD_LOCKS with the lock of sid (created if missing) set to holder.
SetLock(lk, sid, holder) ==
    [k \in DOMAIN lk \cup {sid} |-> IF k = sid THEN holder ELSE lk[k]]

\* The mutant of Release: a call that raised keeps the lock.
ReleaseUnlessRaised(lk, sid, outcome) ==
    IF outcome = "raised" THEN lk ELSE SetLock(lk, sid, Free)

\* finally: lock.release(), however the body of the try ended.
Release(lk, sid, outcome) == SetLock(lk, sid, Free)

\* The notifications one _send_telegram_markdown adds, with telegram enabled
\* and configured or not.
Notify(n) == IF telegram THEN n + 1 ELSE n

InitRebuild ==
    /\ locks = EmptyMap
    /\ pc = [p \in Procs |-> "idle"]
    /\ target = [p \in Procs |-> NoTarget]
    /\ result = [p \in Procs |-> "none"]
    /\ sent = [p \in Procs |-> 0]
    /\ calls = [p \in Procs |-> 0]
    /\ telegram \in BOOLEAN
    /\ DeltaUnused /\ CycleUnused /\ StoreUnused /\ ViewUnused /\ ControlUnused

\* /rebuild <ID> or the monitor's automatic rebuild: _perform_rebuild is
\* called for a server.
CallPerformRebuild(p, sid) ==
    /\ p \in LockedProcs
    /\ pc[p] = "idle"
    /\ pc' = [pc EXCEPT ![p] = "call"]
    /\ target' = [target EXCEPT ![p] = sid]
    /\ result' = [result EXCEPT ![p] = "none"]
    /\ sent' = [sent EXCEPT ![p] = 0]
    /\ calls' = [calls EXCEPT ![p] = 0]
    /\ UNCHANGED <<locks, telegram, deltaVars, cycleVars, storeVars, viewVars, controlVars>>

\* Lines 794-796: the lock is tried; when it is held the call returns
\* "rebuild already in progress".
AcquireOrFail(p) ==
    /\ pc[p] = "call"
    /\ IF TryAcquire(locks, target[p])
       THEN /\ locks' = SetLock(locks, target[p], p)
            /\ pc' = [pc EXCEPT ![p] = "locked"]
            /\ UNCHANGED result
       ELSE /\ pc' = [pc EXCEPT ![p] = "idle"]
            /\ result' = [result EXCEPT ![p] = "busy"]
            /\ UNCHANGED locks
    /\ UNCHANGED <<target, sent, calls, telegram, deltaVars, cycleVars, storeVars, viewVars, controlVars>>

\* Lines 798-808: the alert is sent and client.rebuild_server is entered.
StartRebuild(p) ==
    /\ pc[p] = "locked"
    /\ sent' = [sent EXCEPT ![p] = Notify(@)]
    /\ calls' = [calls EXCEPT ![p] = @ + 1]
    /\ pc' = [pc EXCEPT ![p] = "rebuilding"]
    /\ UNCHANGED <<locks, target, result, telegram, deltaVars, cycleVars, storeVars, viewVars, controlVars>>

\* Lines 809-816 and 851-852: rebuild_server returned a failure, or raised;
\* the failure is notified, the lock released, the call ends.
RebuildFailed(p) ==
    /\ p \in LockedProcs
    /\ pc[p] = "rebuilding"
    /\ \E outcome \in {"failed", "raised"} :
          /\ result' = [result EXCEPT ![p] = outcome]
          /\ sent' = [sent EXCEPT ![p] = IF outcome = "failed" THEN Notify(@) ELSE @]
          /\ locks' = Release(locks, target[p], outcome)
    /\ pc' = [pc EXCEPT ![p] = "idle"]
    /\ UNCHANGED <<target, calls, telegram, deltaVars, cycleVars, storeVars, viewVars, controlVars>>

\* Line 808: rebuild_server returned success; the DNS update follows.
RebuildSucceeded(p) ==
    /\ p \in LockedProcs
    /\ pc[p] = "rebuilding"
    /\ pc' = [pc EXCEPT ![p] = "dns"]
    /\ UNCHANGED <<locks, target, result, sent, calls, telegram,
                   deltaVars, cycleVars, storeVars, viewVars, controlVars>>

\* Lines 818-852: the DNS record is updated and the success notified, or
\* the record's resolution or check raises; the lock is released.
FinishRebuild(p) ==
    /\ pc[p] = "dns"
    /\ \E outcome \in {"ok", "raised"} :
          /\ result' = [result EXCEPT ![p] = outcome]
          /\ sent' = [sent EXCEPT ![p] = IF outcome = "ok" THEN Notify(@) ELSE @]
          /\ locks' = Release(locks, target[p], outcome)
    /\ pc' = [pc EXCEPT ![p] = "idle"]
    /\ UNCHANGED <<target, calls, telegram, deltaVars, cycleVars, storeVars, viewVars, controlVars>>

\* POST /api/rebuild, lines 1729-1732: client.rebuild_server is called
\* directly.
ApiRebuild(sid) ==
    /\ pc["http"] = "idle"
    /\ pc' = [pc EXCEPT !["http"] = "rebuilding"]
    /\ target' = [target EXCEPT !["http"] = sid]
    /\ result' = [result EXCEPT !["http"] = "none"]
    /\ calls' = [calls EXCEPT !["http"] = 1]
    /\ UNCHANGED <<locks, sent, telegram, deltaVars, cycleVars, storeVars, viewVars, controlVars>>

\* Lines 1733-1746: rebuild_server returned (or raised); the response is
\* sent.
ApiRebuildReturn ==
    /\ pc["http"] = "rebuilding"
    /\ \E outcome \in {"ok", "failed", "raised"} :
          result' = [result EXCEPT !["http"] = outcome]
    /\ pc' = [pc EXCEPT !["http"] = "idle"]
    /\ UNCHANGED <<locks, target, sent, calls, telegram, deltaVars, cycleVars, storeVars, viewVars, controlVars>>

NextRebuild ==
    \/ \E p \in LockedProcs, sid \in Ids : CallPerformRebuild(p, sid)
    \/ \E p \in LockedProcs : AcquireOrFail(p)
    \/ \E p \in LockedProcs : StartRebuild(p)
    \/ \E p \in LockedProcs : RebuildFailed(p)
    \/ \E p \in LockedProcs : RebuildSucceeded(p)
    \/ \E p \in LockedProcs : FinishRebuild(p)
    \/ \E sid \in Ids : ApiRebuild(sid)
    \/ ApiRebuildReturn

SpecRebuild == InitRebuild /\ [][NextRebuild]_vars

(***************************************************************************)
(* Snapshot merge: _merge_hourly_snapshot, _merge_hourly_series            *)
(***************************************************************************)

\* The mutant of _sum_optional: a missing operand counts as 0.
SumOptionalZero(a, b) ==
    (IF a = None THEN 0 ELSE a) + (IF b = None THEN 0 ELSE b)

\* The mutant of _sum_optional: a missing operand makes the sum missing.
SumOptionalStrict(a, b) == IF a = None \/ b = None THEN None ELSE a + b

\* _sum_optional(a, b): None is the identity, None and None stay None.
_sum_optional(a, b) ==
    IF a = None /\ b = None THEN None
    ELSE IF a = None THEN b
    ELSE IF b = None THEN a
    ELSE a + b

\* name = data.get("name") or str(sid)
MergeName(snapshot, sid) ==
    IF snapshot[sid].name # NoName THEN snapshot[sid].name ELSE sid

\* A field of the entry of one name once the identifiers of S have added
\* their readings to acc, as the loop over snapshot.items() does.
RECURSIVE MergeField(_, _, _, _)
MergeField(S, snapshot, field, acc) ==
    IF S = {} THEN acc
    ELSE LET sid == CHOOSE x \in S : TRUE
         IN MergeField(S \ {sid}, snapshot, field,
                       _sum_optional(acc, snapshot[sid][field]))

\* _merge_hourly_snapshot(snapshot): the entries are created by setdefault
\* with both counters None.
_merge_hourly_snapshot(snapshot) ==
    LET names == {MergeName(snapshot, sid) : sid \in DOMAIN snapshot}
    IN Evaluated([n \in names |->
          LET sids == {sid \in DOMAIN snapshot : MergeName(snapshot, sid) = n}
          IN [name |-> n,
              outbound_bytes |-> MergeField(sids, snapshot, "outbound_bytes", None),
              inbound_bytes |-> MergeField(sids, snapshot, "inbound_bytes", None)]])

\* {key: _merge_hourly_snapshot(snapshot) for key, snapshot in hourly.items()}
_merge_hourly_series(series) ==
    Evaluated([key \in DOMAIN series |-> _merge_hourly_snapshot(series[key])])

(***************************************************************************)
(* Aggregation views: tracking totals, last rebuilds, daily, hourly report *)
(***************************************************************************)

\* The sum of f[x] over x in S.
RECURSIVE SumMap(_, _)
SumMap(S, f) ==
    IF S = {} THEN 0
    ELSE LET x == CHOOSE y \in S : TRUE
         IN f[x] + SumMap(S \ {x}, f)

\* deltas[i] = _delta_by_name(hourly[keys[i - 1]], hourly[keys[i]]) for the
\* transitions i of range(first, len(keys)) (keys counted from 1 here).
TransitionDeltas(series, keys, first) ==
    Evaluated([i \in first .. Len(keys) |->
                  _delta_by_name(series[keys[i - 1]], series[keys[i]])])

\* The mutant of StartIndex: when no bucket reaches the start, the window is
\* the whole series.
StartIndexOrWhole(keys, start_override) ==
    IF \E idx \in 1 .. Len(keys) : keys[idx] >= start_override
    THEN CHOOSE idx \in 1 .. Len(keys) :
            /\ keys[idx] >= start_override
            /\ \A j \in 1 .. (idx - 1) : keys[j] < start_override
    ELSE 1

\* for idx, key in enumerate(keys): if key >= start_override: ... break.
\* The index (from 1) of the first such key, 0 when the loop ends without
\* break.
StartIndex(keys, start_override) ==
    IF \E idx \in 1 .. Len(keys) : keys[idx] >= start_override
    THEN CHOOSE idx \in 1 .. Len(keys) :
            /\ keys[idx] >= start_override
            /\ \A j \in 1 .. (idx - 1) : keys[j] < start_override
    ELSE 0

\* What one transition adds to total_out or total_in: the amounts dir of the
\* entries whose flag is set.
TransitionTotal(deltas, flag, dir) ==
    SumMap({n \in DOMAIN deltas : deltas[n][flag]},
           Evaluated([n \in DOMAIN deltas |-> deltas[n][dir]]))

\* _compute_tracking_totals(hourly, start_override); a start_override that is
\* None or "" is falsy and is held as None.
_compute_tracking_totals(series, start_override) ==
    LET keys == SortedKeys(DOMAIN series)
        start_idx == IF start_override # None THEN StartIndex(keys, start_override) ELSE 1
        start_label == IF start_override # None THEN start_override ELSE keys[1]
        deltas == TransitionDeltas(series, keys, start_idx + 1)
        total_out == SumMap(DOMAIN deltas,
                            Evaluated([i \in DOMAIN deltas |->
                                TransitionTotal(deltas[i], "has_out", "out")]))
        total_in == SumMap(DOMAIN deltas,
                           Evaluated([i \in DOMAIN deltas |->
                               TransitionTotal(deltas[i], "has_in", "in")]))
    IN IF keys = <<>>
       THEN [start |-> None, outbound_tb |-> 0, inbound_tb |-> 0]
       ELSE IF start_idx = 0
       THEN [start |-> start_override, outbound_tb |-> 0, inbound_tb |-> 0]
       ELSE [start |-> start_label,
             outbound_tb |-> _quantize_tb(total_out),
             inbound_tb |-> _quantize_tb(total_in)]

\* The mutant of IsDecrease: an unchanged reading counts as a decrease.
IsDecreaseOrEqual(prev_val, current) == prev_val # None /\ current <= prev_val

\* prev is not None and current < prev
IsDecrease(prev_val, current) == prev_val # None /\ current < prev_val

\* The loop over the keys from bucket i on, for one identifier: prev_val is
\* prev_out.get(sid) and last is last.get(sid).
RECURSIVE DetectWalk(_, _, _, _, _, _)
DetectWalk(series, keys, sid, i, prev_val, last) ==
    IF i > Len(keys) THEN last
    ELSE IF sid \notin DOMAIN series[keys[i]]
            \/ series[keys[i]][sid].outbound_bytes = None
    THEN DetectWalk(series, keys, sid, i + 1, prev_val, last)
    ELSE LET current == series[keys[i]][sid].outbound_bytes
         IN DetectWalk(series, keys, sid, i + 1, current,
                       IF IsDecrease(prev_val, current) THEN keys[i] ELSE last)

\* _detect_last_rebuilds(hourly): identifier -> the last hour its outbound
\* reading fell.
_detect_last_rebuilds(series) ==
    LET keys == SortedKeys(DOMAIN series)
        seen == UNION {DOMAIN series[k] : k \in DOMAIN series}
        last == Evaluated([sid \in seen |-> DetectWalk(series, keys, sid, 1, None, None)])
    IN [sid \in {o \in seen : last[o] # None} |-> last[sid]]

\* day_keys[-35:]: the number of calendar dates the daily view keeps.
DayWindow == 35

\* keys[-(hours + 1):] with hours = 24: the buckets the hourly report keeps.
ReportBuckets == 25

\* key.split(" ", 1)[0]: the calendar date of an hour bucket.
_date_from_hour_key(key) == key \div 24

\* seq[-n:]
LastOf(seq, n) ==
    IF Len(seq) <= n THEN seq ELSE SubSeq(seq, Len(seq) - n + 1, Len(seq))

\* d.get(key, Decimal("0.000"))
GetOrZero(d, key) == IF key \in DOMAIN d THEN d[key] ELSE 0

\* max(values, default=Decimal("0.000")) over the field of the rows.
MaxOf(rows, field) ==
    IF rows = <<>> THEN 0
    ELSE LET j == CHOOSE a \in 1 .. Len(rows) :
                     \A b \in 1 .. Len(rows) : rows[b][field] <= rows[a][field]
         IN rows[j][field]

\* sum(values, Decimal("0.000")) over the field of the rows.
SumOf(rows, field) ==
    SumMap(1 .. Len(rows), Evaluated([j \in 1 .. Len(rows) |-> rows[j][field]]))

\* The (transition, name) pairs whose entry has the flag set: the additions
\* the loop of api_daily makes to the totals of one direction.
DailyAdds(deltas, flag) ==
    UNION {{<<i, n>> : n \in {m \in DOMAIN deltas[i] : deltas[i][m][flag]}} :
              i \in DOMAIN deltas}

\* date -> the sum of the additions of adds that fall on the date.
DailyTotals(deltas, keys, adds, dir) ==
    LET amount == Evaluated([a \in adds |-> deltas[a[1]][a[2]][dir]])
    IN Evaluated([d \in {_date_from_hour_key(keys[a[1]]) : a \in adds} |->
          SumMap({a \in adds : _date_from_hour_key(keys[a[1]]) = d}, amount)])

\* name -> date -> the sum of the additions of the name on the date.
PerServer(deltas, keys, adds, dir) ==
    Evaluated([n \in {a[2] : a \in adds} |->
        DailyTotals(deltas, keys, {a \in adds : a[2] = n}, dir)])

\* GET /api/daily.  The "servers" list, built in the order of the names, is
\* held as a map from the name to its rows.  Every stored key has the form
\* "YYYY-MM-DD HH:00", so that a transition is never skipped for want of a
\* date.
api_daily(series) ==
    LET keys == SortedKeys(DOMAIN series)
        deltas == TransitionDeltas(series, keys, 2)
        out_adds == DailyAdds(deltas, "has_out")
        in_adds == DailyAdds(deltas, "has_in")
        daily_totals == DailyTotals(deltas, keys, out_adds, "out")
        daily_in_totals == DailyTotals(deltas, keys, in_adds, "in")
        per_server == PerServer(deltas, keys, out_adds, "out")
        per_server_in == PerServer(deltas, keys, in_adds, "in")
        day_keys == LastOf(SortedKeys(DOMAIN daily_totals), DayWindow)
        days == Evaluated([j \in 1 .. Len(day_keys) |->
                   [date |-> day_keys[j],
                    outbound_tb |-> _quantize_tb(daily_totals[day_keys[j]]),
                    inbound_tb |-> _quantize_tb(GetOrZero(daily_in_totals, day_keys[j]))]])
        servers == Evaluated([n \in DOMAIN per_server |->
                      Evaluated([j \in 1 .. Len(day_keys) |->
                         [date |-> day_keys[j],
                          outbound_tb |-> _quantize_tb(GetOrZero(per_server[n], day_keys[j])),
                          inbound_tb |->
                              _quantize_tb(IF n \in DOMAIN per_server_in
                                           THEN GetOrZero(per_server_in[n], day_keys[j])
                                           ELSE 0)]])])
    IN IF Len(keys) < 2
       THEN [days |-> <<>>, peak |-> 0, total |-> 0, servers |-> EmptyMap]
       ELSE [days |-> days,
             peak |-> _quantize_tb(MaxOf(days, "outbound_tb")),
             total |-> _quantize_tb(SumOf(days, "outbound_tb")),
             in_peak |-> _quantize_tb(MaxOf(days, "inbound_tb")),
             in_total |-> _quantize_tb(SumOf(days, "inbound_tb")),
             servers |-> servers]

\* The entry of one identifier in _format_hourly_report: the name of its
\* first reading after the first bucket (a stored reading always has a
\* name, line 683) and one pair (bucket, delta_tb) for every transition
\* whose later bucket holds the identifier.
ReportEntry(series, keys, sid) ==
    LET Present(i) == sid \in DOMAIN series[keys[i]]
        Row(i) == [hour |-> keys[i],
                   delta_tb |-> CounterDelta(
                       GetReading(series[keys[i - 1]], sid).outbound_bytes,
                       series[keys[i]][sid].outbound_bytes)]
        steps == SelectSeq([j \in 1 .. (Len(keys) - 1) |-> j + 1], Present)
    IN [name |-> series[keys[steps[1]]][sid].name,
        deltas |-> [j \in 1 .. Len(steps) |-> Row(steps[j])]]

\* _format_hourly_report(hourly): the text for no data, the text for
\* insufficient data, or the rows that are rendered, by identifier.
_format_hourly_report(series) ==
    LET keys == LastOf(SortedKeys(DOMAIN series), ReportBuckets)
        shown == UNION {DOMAIN series[keys[i]] : i \in 2 .. Len(keys)}
    IN IF DOMAIN series = {} THEN [text |-> "no data"]
       ELSE IF Len(keys) < 2 THEN [text |-> "insufficient data"]
       ELSE [text |-> "report",
             servers |-> Evaluated([sid \in shown |-> ReportEntry(series, keys, sid)])]

(***************************************************************************)
(* SpecViews: the views applied to a stored series                         *)
(***************************************************************************)

\* The readings of the stored servers: server "1" is named web, grows from
\* 1 TB to 2 TB or has no counters; server "2" has an inbound counter only,
\* and is a second server named web or has no name.
ViewReadings(sid) ==
    IF sid = "1"
    THEN {[name |-> "web", outbound_bytes |-> TB, inbound_bytes |-> None],
          [name |-> "web", outbound_bytes |-> 2 * TB, inbound_bytes |-> TB],
          [name |-> "web", outbound_bytes |-> None, inbound_bytes |-> None]}
    ELSE {[name |-> "web", outbound_bytes |-> None, inbound_bytes |-> TB],
          [name |-> NoName, outbound_bytes |-> None, inbound_bytes |-> 0],
          [name |-> NoName, outbound_bytes |-> None, inbound_bytes |-> TB]}

\* Server "2" is in every bucket, server "1" in some.
ViewSnapshots ==
    {s \in SnapshotsOf(Ids, UNION {ViewReadings(sid) : sid \in Ids}) :
        /\ "2" \in DOMAIN s
        /\ \A sid \in DOMAIN s : s[sid] \in ViewReadings(sid)}

ViewSeries == UNION {[HourKeys(n) -> ViewSnapshots] : n \in 0 .. MaxHours}

\* The largest number of daily transitions of a long series.
LongDays == 37

\* The counters of server "1" on day d of a long series of n days: the
\* outbound counter grows by 3 TB on the first day and by 1 TB a day after
\* (1); by 2 TB on odd and 1 TB on even days, the inbound one by 1 TB a day
\* (2); the inbound counter grows by 1 TB a day and the outbound counter is
\* reported on the last two days only (3).
LongReading(n, pattern, d) ==
    [name |-> "web",
     outbound_bytes |-> IF pattern = 1 THEN (IF d = 0 THEN TB ELSE (d + 3) * TB)
                        ELSE IF pattern = 2 THEN (1 + d + (d + 1) \div 2) * TB
                        ELSE (IF d < n - 1 THEN None ELSE d * TB),
     inbound_bytes |-> IF pattern = 1 THEN None ELSE d * TB]

\* One bucket a day, at the hour FirstHour, over n + 1 days.
LongSeriesOf(n, pattern) ==
    [k \in {FirstHour + 24 * d : d \in 0 .. n} |->
        [sid \in {"1"} |-> LongReading(n, pattern, (k - FirstHour) \div 24)]]

LongSeries == {LongSeriesOf(n, pattern) : n \in DayWindow .. LongDays, pattern \in 1 .. 3}

\* 1/16 TB: a difference whose TB value, 0.0625, has a fourth fractional
\* digit.
Sixteenth == TB \div 16

\* A series of n hourly buckets in which both counters of server "1" grow by
\* 1/16 TB an hour.
FineSeriesOf(n) ==
    [k \in HourKeys(n) |->
        [sid \in {"1"} |-> [name |-> "web",
                            outbound_bytes |-> (k - FirstHour) * Sixteenth,
                            inbound_bytes |-> (k - FirstHour) * Sixteenth]]]

FineSeries == {FineSeriesOf(n) : n \in 2 .. MaxHours}

\* A series of three buckets across a rebuild: the first holds server "1",
\* named web, with both counters at a; the later ones hold its replacement
\* "2", also named web, with both counters at b and then at b + 1 TB.
RebuiltSeriesOf(a, b) ==
    [k \in HourKeys(3) |->
        IF k = FirstHour
        THEN [sid \in {"1"} |-> [name |-> "web", outbound_bytes |-> a, inbound_bytes |-> a]]
        ELSE [sid \in {"2"} |->
                 [name |-> "web",
                  outbound_bytes |-> b + (k - FirstHour - 1) * TB,
                  inbound_bytes |-> b + (k - FirstHour - 1) * TB]]]

RebuiltSeries == {RebuiltSeriesOf(a, b) : a \in {TB, 3 * TB}, b \in {0, 2 * TB}}

\* The tracking_start of the configuration: none, or an hour from before the
\* first bucket to after the last.
TrackingStarts == {None} \cup ((FirstHour - 1) .. (FirstHour + MaxHours))

InitViews ==
    /\ vhourly \in ViewSeries \cup LongSeries \cup FineSeries \cup RebuiltSeries
    /\ varg = None
    /\ view = EmptyMap
    /\ vpc = "call"
    /\ DeltaUnused /\ CycleUnused /\ StoreUnused /\ RebuildUnused /\ ControlUnused

\* GET /api/servers, line 1707: hourly = _merge_hourly_series(...)
MergeHourlySeries ==
    /\ vpc = "call"
    /\ view' = _merge_hourly_series(vhourly)
    /\ vpc' = "merged"
    /\ UNCHANGED <<vhourly, varg, deltaVars, cycleVars, storeVars, rebuildVars, controlVars>>

\* GET /api/servers, lines 1707-1708: the tracking totals of the merged
\* series from the configured tracking_start.
ComputeTrackingTotals ==
    /\ vpc = "call"
    /\ \E start_override \in TrackingStarts :
          /\ varg' = start_override
          /\ view' = _compute_tracking_totals(_merge_hourly_series(vhourly), start_override)
    /\ vpc' = "tracking"
    /\ UNCHANGED <<vhourly, deltaVars, cycleVars, storeVars, rebuildVars, controlVars>>

\* GET /api/servers, line 1709: _detect_last_rebuilds(state.get("hourly", {}))
DetectLastRebuilds ==
    /\ vpc = "call"
    /\ view' = _detect_last_rebuilds(vhourly)
    /\ vpc' = "rebuilds"
    /\ UNCHANGED <<vhourly, varg, deltaVars, cycleVars, storeVars, rebuildVars, controlVars>>

\* GET /api/daily
ApiDaily ==
    /\ vpc = "call"
    /\ view' = api_daily(vhourly)
    /\ vpc' = "daily"
    /\ UNCHANGED <<vhourly, varg, deltaVars, cycleVars, storeVars, rebuildVars, controlVars>>

\* The hourly section of a report: _format_hourly_report(hourly)
FormatHourlyReport ==
    /\ vpc = "call"
    /\ view' = _format_hourly_report(vhourly)
    /\ vpc' = "hourly"
    /\ UNCHANGED <<vhourly, varg, deltaVars, cycleVars, storeVars, rebuildVars, controlVars>>

\* GET /api/cycle over the stored series, with the servers that exist.
ApiCycleView ==
    /\ vpc = "call"
    /\ \E servers \in ApiServers :
          /\ varg' = servers
          /\ view' = api_cycle(vhourly, servers)
    /\ vpc' = "cycle"
    /\ UNCHANGED <<vhourly, deltaVars, cycleVars, storeVars, rebuildVars, controlVars>>

NextViews ==
    \/ MergeHourlySeries
    \/ ComputeTrackingTotals
    \/ DetectLastRebuilds
    \/ ApiDaily
    \/ FormatHourlyReport
    \/ ApiCycleView

SpecViews == InitViews /\ [][NextViews]_vars

(***************************************************************************)
(* SpecMonitor: the body of _monitor_traffic_loop for one server           *)
(***************************************************************************)

\* limit_bytes, in units in which percent = outgoing.
MonitorLimit == 100

\* The levels _parse_alert_levels falls back to.
DefaultLevels == {80, 90, 95, 100}

\* _parse_alert_levels(raw_levels), raw_levels a list of integers (anything
\* else is held as the empty list): the positive items, or the defaults.
_parse_alert_levels(raw_levels) ==
    LET levels == {raw_levels[i] : i \in {j \in DOMAIN raw_levels : raw_levels[j] > 0}}
    IN IF levels # {} THEN levels ELSE DefaultLevels

\* reached = [level for level in levels if percent >= level]
Reached(levels, outgoing) ==
    {level \in levels : outgoing * 100 >= level * MonitorLimit}

\* ALERT_STATE.setdefault(sid, {...})
AlertDefault == [last_level |-> 0, last_outgoing |-> None, auto_rebuild |-> FALSE]

AlertOf(alerts, sid) == IF sid \in DOMAIN alerts THEN alerts[sid] ELSE AlertDefault

\* Lines 1063-1067: a counter below the last one observed resets the entry.
CounterDecreased(state, outgoing) ==
    state.last_outgoing # None /\ outgoing < state.last_outgoing

ObservedState(state, outgoing) ==
    [last_level |-> IF CounterDecreased(state, outgoing) THEN 0 ELSE state.last_level,
     last_outgoing |-> outgoing,
     auto_rebuild |-> IF CounterDecreased(state, outgoing) THEN FALSE
                      ELSE state.auto_rebuild]

\* The mutant of LevelDue: a level that was already notified is due again.
LevelDueAgain(new_level, last_level) == new_level >= last_level

\* not (int(new_level) <= int(state.get("last_level") or 0))
LevelDue(new_level, last_level) == ~(new_level <= last_level)

\* The mutant of NotRebuiltYet: the flag auto_rebuild is not consulted.
NotRebuiltYetAlways(state) == TRUE

\* if not state.get("auto_rebuild")
NotRebuiltYet(state) == ~state.auto_rebuild

\* The raw notify_levels, the outgoing_traffic readings and the
\* configurations of the model.
RawLevels == {<<>>, <<0, 120, 50>>}
Outgoings == {None, 40, 85, 100, 130}
MonitorConfigs ==
    [notify_levels : RawLevels, enabled : BOOLEAN,
     exceed_action : {"rebuild", "delete", ""}]

\* The history of a server: whether an automatic rebuild or delete has
\* succeeded, and the highest level delivered, since its counter last fell.
NoHistory == [succeeded |-> FALSE, notified |-> 0]

\* The server in hand when the body starts.
Observation(sid, outgoing) ==
    [sid |-> sid, outgoing |-> outgoing, decreased |-> FALSE, new_level |-> 0,
     sent |-> FALSE, delivered |-> FALSE, tried |-> "none", outcome |-> "none"]

InitMonitor ==
    /\ ALERT_STATE = EmptyMap
    /\ mcfg \in MonitorConfigs
    /\ mpc = "idle"
    /\ mcur = Observation("1", None)
    /\ mlog = [sid \in Ids |-> NoHistory]
    /\ DeltaUnused /\ CycleUnused /\ StoreUnused /\ RebuildUnused /\ ViewUnused
    /\ ReplaceUnused /\ ServerUnused /\ ScheduleUnused

\* Lines 1054-1074: the reading is fetched, the entry reset when the counter
\* fell, and the body left when no level is newly reached.
Observe(sid, outgoing) ==
    /\ mpc = "idle"
    /\ IF outgoing = None
       THEN /\ mcur' = Observation(sid, outgoing)
            /\ UNCHANGED <<ALERT_STATE, mpc, mlog>>
       ELSE LET before == AlertOf(ALERT_STATE, sid)
                state == ObservedState(before, outgoing)
                reached == Reached(_parse_alert_levels(mcfg.notify_levels), outgoing)
                new_level == IF reached = {} THEN 0
                             ELSE CHOOSE a \in reached : \A b \in reached : b <= a
                due == reached # {} /\ LevelDue(new_level, state.last_level)
            IN /\ ALERT_STATE' = Evaluated([x \in DOMAIN ALERT_STATE \cup {sid} |->
                                     IF x = sid THEN state ELSE ALERT_STATE[x]])
               /\ mcur' = [Observation(sid, outgoing) EXCEPT
                              !.decreased = CounterDecreased(before, outgoing),
                              !.new_level = new_level]
               /\ mlog' = IF CounterDecreased(before, outgoing)
                          THEN [mlog EXCEPT ![sid] = NoHistory] ELSE mlog
               /\ mpc' = IF due THEN "notify" ELSE "idle"
    /\ UNCHANGED <<mcfg, deltaVars, cycleVars, storeVars, rebuildVars, viewVars,
                   replaceVars, serverVars, scheduleVars>>

\* Lines 1076-1096: the threshold notification; last_level is raised when
\* _send_telegram_markdown returns True.
NotifyLevel ==
    /\ mpc = "notify"
    /\ IF mcfg.enabled
       THEN \E ok \in BOOLEAN :
               /\ ALERT_STATE' = IF ok
                                 THEN [ALERT_STATE EXCEPT ![mcur.sid].last_level = mcur.new_level]
                                 ELSE ALERT_STATE
               /\ mcur' = [mcur EXCEPT !.sent = TRUE, !.delivered = ok]
               /\ mlog' = IF ok THEN [mlog EXCEPT ![mcur.sid].notified = mcur.new_level]
                          ELSE mlog
       ELSE UNCHANGED <<ALERT_STATE, mcur, mlog>>
    /\ mpc' = "exceed"
    /\ UNCHANGED <<mcfg, deltaVars, cycleVars, storeVars, rebuildVars, viewVars,
                   replaceVars, serverVars, scheduleVars>>

\* Lines 1098-1117: the automatic rebuild or delete of a server at or over
\* the limit.  _perform_rebuild succeeds, fails or raises; delete_server
\* returns True or False.
ExceedAction ==
    /\ mpc = "exceed"
    /\ LET state == ALERT_STATE[mcur.sid]
           over == mcur.outgoing >= MonitorLimit
           kind == IF mcfg.exceed_action \in {"rebuild", "delete_rebuild"} /\ over
                   THEN "rebuild"
                   ELSE IF mcfg.exceed_action = "delete" /\ over THEN "delete"
                   ELSE "none"
       IN IF kind # "none" /\ NotRebuiltYet(state)
          THEN \E outcome \in (IF kind = "rebuild" THEN {"success", "failure", "raised"}
                               ELSE {"success", "failure"}) :
                  /\ ALERT_STATE' = IF outcome = "success"
                                    THEN [ALERT_STATE EXCEPT ![mcur.sid].auto_rebuild = TRUE]
                                    ELSE ALERT_STATE
                  /\ mcur' = [mcur EXCEPT !.tried = kind, !.outcome = outcome]
                  /\ mlog' = IF outcome = "success"
                             THEN [mlog EXCEPT ![mcur.sid].succeeded = TRUE]
                             ELSE mlog
          ELSE UNCHANGED <<ALERT_STATE, mcur, mlog>>
    /\ mpc' = "idle"
    /\ UNCHANGED <<mcfg, deltaVars, cycleVars, storeVars, rebuildVars, viewVars,
                   replaceVars, serverVars, scheduleVars>>

ObserveServer == \E sid \in Ids, outgoing \in Outgoings : Observe(sid, outgoing)

NextMonitor ==
    \/ ObserveServer
    \/ NotifyLevel
    \/ ExceedAction

SpecMonitor == InitMonitor /\ [][NextMonitor]_vars

(***************************************************************************)
(* SpecReplace: rebuilds followed by the DNS update                        *)
(***************************************************************************)

\* The largest number of servers created by rebuilds.
MaxRebuilds == 3

\* The servers that exist at first.
FirstServers == {1, 2}

\* cloudflare.record_map at first: identifier -> record name.
RecordMaps ==
    {EmptyMap, [sid \in {1} |-> "web.example.com"],
     [sid \in FirstServers |-> IF sid = 1 THEN "web.example.com" ELSE "db.example.com"]}

\* record_map.get(str(server_id)): the record, or no name for None.
RecordFor(map, server_id) ==
    IF server_id \in DOMAIN map THEN map[server_id] ELSE NoName

\* dns = None: no update of a record was attempted.
NoDns == [record |-> NoName, content |-> 0]

\* The rebuild call that has not happened.
NoRebuild ==
    [via |-> "none", server_id |-> 0, success |-> FALSE, new_server_id |-> 0, dns |-> NoDns]

InitReplace ==
    /\ record_map \in RecordMaps
    /\ fleet = FirstServers
    /\ lineage = record_map
    /\ last_rebuild = NoRebuild
    /\ next_id = Greatest(FirstServers) + 1
    /\ DeltaUnused /\ CycleUnused /\ StoreUnused /\ RebuildUnused /\ ViewUnused
    /\ MonitorUnused /\ ServerUnused /\ ScheduleUnused

\* A rebuild of server_id and what follows it, in _perform_rebuild (lines
\* 808-828) and in api_rebuild (lines 1732-1745).  rebuild_server fails
\* with the old server kept, fails with it deleted, or replaces it by a new
\* server: the new identifier stands for the new IP too.  The record is
\* looked up under str(server_id), and after a success only.
RebuildThenDns(via, server_id) ==
    /\ server_id \in fleet
    /\ \E outcome \in {"kept", "deleted", "replaced"} :
          LET record == RecordFor(record_map, server_id)
          IN /\ outcome = "replaced" => next_id <= Greatest(FirstServers) + MaxRebuilds
             /\ fleet' = IF outcome = "kept" THEN fleet
                         ELSE IF outcome = "deleted" THEN fleet \ {server_id}
                         ELSE (fleet \ {server_id}) \cup {next_id}
             /\ next_id' = IF outcome = "replaced" THEN next_id + 1 ELSE next_id
             /\ lineage' = IF outcome = "replaced" /\ server_id \in DOMAIN lineage
                           THEN Evaluated([x \in DOMAIN lineage \cup {next_id} |->
                                    IF x = next_id THEN lineage[server_id] ELSE lineage[x]])
                           ELSE lineage
             /\ last_rebuild' =
                   [via |-> via, server_id |-> server_id,
                    success |-> outcome = "replaced",
                    new_server_id |-> IF outcome = "replaced" THEN next_id ELSE 0,
                    dns |-> IF outcome = "replaced" /\ record # NoName
                            THEN [record |-> record, content |-> next_id]
                            ELSE NoDns]
    /\ UNCHANGED <<record_map, deltaVars, cycleVars, storeVars, rebuildVars, viewVars,
                   monitorVars, serverVars, scheduleVars>>

PerformRebuildDns == \E server_id \in fleet : RebuildThenDns("perform", server_id)

ApiRebuildDns == \E server_id \in fleet : RebuildThenDns("api", server_id)

NextReplace ==
    \/ PerformRebuildDns
    \/ ApiRebuildDns

SpecReplace == InitReplace /\ [][NextReplace]_vars

(***************************************************************************)
(* SpecRebuildServer: HetznerClient.rebuild_server                         *)
(***************************************************************************)

\* for _ in range(3): the create attempts of one call.
CreateAttempts == 3

\* rebuild.snapshot_id_map of the configuration: keyed by the identifier of
\* server "1", by the name of the servers, by both, or empty.
SnapshotIdMaps ==
    {EmptyMap, [k \in {"1"} |-> 5], [k \in {"web"} |-> 6],
     [k \in {"1", "web"} |-> IF k = "1" THEN 5 ELSE 6]}

\* The snapshots of the account: none, or two.
SnapshotSets == {{}, {[id |-> 7, created |-> 1], [id |-> 8, created |-> 2]}}

\* No image, no server: a falsy value.
Nothing == 0

\* snapshot_id_map.get(str(server_id)) or snapshot_id_map.get(name)
MappedId(map, server_id, name) ==
    IF server_id \in DOMAIN map THEN map[server_id]
    ELSE IF name \in DOMAIN map THEN map[name]
    ELSE Nothing

\* get_snapshots()[0]["id"]: the list is sorted by "created", newest first.
NewestSnapshot(snapshots) ==
    (CHOOSE x \in snapshots : \A y \in snapshots : y.created <= x.created).id

\* The mutant of AttemptsLeft: one attempt more.
AttemptsLeftOneMore(creates) == creates <= CreateAttempts

\* The loop for _ in range(3) has an iteration left.
AttemptsLeft(creates) == creates < CreateAttempts

\* The identifier of the server that a create request returns.
NewServerId == 2

InitRebuildServer ==
    /\ rs \in [pc : {"start"}, server_id : Ids, name : {"web"},
               snapshot_id_map : SnapshotIdMaps, snapshots : SnapshotSets,
               old_server : {FALSE}, image : {Nothing}, deleted : {FALSE},
               creates : {0}, new_server : {Nothing}, result : {"none"}]
    /\ api_log = <<>>
    /\ DeltaUnused /\ CycleUnused /\ StoreUnused /\ RebuildUnused /\ ViewUnused
    /\ MonitorUnused /\ ReplaceUnused /\ ScheduleUnused

\* Lines 372-374: the old server is fetched; the call ends when it is not
\* found.
GetOldServer ==
    /\ rs.pc = "start"
    /\ api_log' = Append(api_log, "get_server")
    /\ \E found \in BOOLEAN :
          rs' = IF found THEN [rs EXCEPT !.old_server = TRUE, !.pc = "image"]
                ELSE [rs EXCEPT !.pc = "returned", !.result = "no server"]
    /\ UNCHANGED <<deltaVars, cycleVars, storeVars, rebuildVars, viewVars,
                   monitorVars, replaceVars, scheduleVars>>

\* Lines 376-384: the image is the mapped one, else the newest snapshot; the
\* call ends when there is no snapshot.
DetermineImage ==
    /\ rs.pc = "image"
    /\ LET mapped_id == MappedId(rs.snapshot_id_map, rs.server_id, rs.name)
       IN IF mapped_id # Nothing
          THEN /\ rs' = [rs EXCEPT !.image = mapped_id, !.pc = "delete"]
               /\ UNCHANGED api_log
          ELSE /\ api_log' = Append(api_log, "get_snapshots")
               /\ rs' = IF rs.snapshots = {}
                        THEN [rs EXCEPT !.pc = "returned", !.result = "no snapshot"]
                        ELSE [rs EXCEPT !.image = NewestSnapshot(rs.snapshots),
                                        !.pc = "delete"]
    /\ UNCHANGED <<deltaVars, cycleVars, storeVars, rebuildVars, viewVars,
                   monitorVars, replaceVars, scheduleVars>>

\* Lines 386-387: the old server is deleted; the call ends when that fails.
DeleteOldServer ==
    /\ rs.pc = "delete"
    /\ api_log' = Append(api_log, "delete_server")
    /\ \E ok \in BOOLEAN :
          rs' = IF ok THEN [rs EXCEPT !.deleted = TRUE, !.pc = "create"]
                ELSE [rs EXCEPT !.pc = "returned", !.result = "delete failed"]
    /\ UNCHANGED <<deltaVars, cycleVars, storeVars, rebuildVars, viewVars,
                   monitorVars, replaceVars, scheduleVars>>

\* Lines 399-407: one create request: it returns a server, returns none, or
\* raises.
CreateServer ==
    /\ rs.pc = "create"
    /\ rs.new_server = Nothing
    /\ AttemptsLeft(rs.creates)
    /\ api_log' = Append(api_log, "create_server")
    /\ \E outcome \in {"server", "empty", "error"} :
          rs' = [rs EXCEPT !.creates = @ + 1,
                           !.new_server = IF outcome = "server" THEN NewServerId
                                          ELSE Nothing]
    /\ UNCHANGED <<deltaVars, cycleVars, storeVars, rebuildVars, viewVars,
                   monitorVars, replaceVars, scheduleVars>>

\* Lines 408-416: the loop is over; the result is returned.
ReturnResult ==
    /\ rs.pc = "create"
    /\ rs.new_server # Nothing \/ ~AttemptsLeft(rs.creates)
    /\ rs' = [rs EXCEPT !.pc = "returned",
                        !.result = IF rs.new_server # Nothing THEN "success"
                                   ELSE "create failed"]
    /\ UNCHANGED <<api_log, deltaVars, cycleVars, storeVars, rebuildVars, viewVars,
                   monitorVars, replaceVars, scheduleVars>>

NextRebuildServer ==
    \/ GetOldServer
    \/ DetermineImage
    \/ DeleteOldServer
    \/ CreateServer
    \/ ReturnResult

SpecRebuildServer == InitRebuildServer /\ [][NextRebuildServer]_vars

(***************************************************************************)
(* SpecSchedule: the scheduler loop _schedule_loop                         *)
(*                                                                         *)
(* The local time is a day and a slot of SleepSeconds seconds within the   *)
(* day; strftime("%H:%M") of it is the minute that the slot falls in and   *)
(* strftime("%Y-%m-%d") is the day.  A configured time is a minute.        *)
(***************************************************************************)

\* time.sleep(20) at the end of an iteration.
SleepSeconds == 20

\* The loop iterations that fall in one minute.
SlotsPerMinute == 60 \div SleepSeconds

\* The minutes of a day and the days of a run.
MinutesPerDay == 2
MaxDays == 2

SlotsPerDay == MinutesPerDay * SlotsPerMinute

\* The (action, t) pairs of the configured tasks in the order of the two
\* for loops: two tasks of one time each, or one task that names a time
\* twice.
TaskLists ==
    {<<[action |-> "delete_all", t |-> 0],
       [action |-> "create_from_snapshots", t |-> 1]>>,
     <<[action |-> "create_from_snapshots", t |-> 0],
       [action |-> "create_from_snapshots", t |-> 0]>>}

\* key = f"{action}:{t}"
TaskKey(task) == <<task.action, task.t>>

\* now.strftime("%H:%M")
MinuteOf(c) == c.slot \div SlotsPerMinute

\* current_time == t and last_runs.get(key) != current_date
TaskDue(runs, key, t, current_time, current_date) ==
    /\ current_time = t
    /\ ~(key \in DOMAIN runs /\ runs[key] = current_date)

\* The task that the for loops have reached.
TaskInHand == spc.tasks[spc.i]

InitSchedule ==
    /\ last_runs = EmptyMap
    /\ clock = [date |-> 1, slot |-> 0]
    /\ spc \in [pc : {"top"}, tasks : TaskLists, i : {1},
                current_time : {0}, current_date : {1}]
    /\ executed = EmptyMap
    /\ DeltaUnused /\ CycleUnused /\ StoreUnused /\ RebuildUnused /\ ViewUnused
    /\ MonitorUnused /\ ReplaceUnused /\ ServerUnused

\* Lines 1004-1007: the iteration reads the local time once.
ReadClock ==
    /\ spc.pc = "top"
    /\ spc' = [spc EXCEPT !.pc = "tasks", !.i = 1,
                          !.current_time = MinuteOf(clock),
                          !.current_date = clock.date]
    /\ UNCHANGED <<last_runs, clock, executed, deltaVars, cycleVars, storeVars,
                   rebuildVars, viewVars, monitorVars, replaceVars, serverVars>>

\* Lines 1014-1016: a pair that is not due is passed over.
SkipTask ==
    /\ spc.pc = "tasks" /\ spc.i <= Len(spc.tasks)
    /\ ~TaskDue(last_runs, TaskKey(TaskInHand), TaskInHand.t,
                spc.current_time, spc.current_date)
    /\ spc' = [spc EXCEPT !.i = spc.i + 1]
    /\ UNCHANGED <<last_runs, clock, executed, deltaVars, cycleVars, storeVars,
                   rebuildVars, viewVars, monitorVars, replaceVars, serverVars>>

\* Lines 1016-1018: the action of a due pair is executed; it completes, or
\* it raises and the except clause of the loop ends the iteration.
RunScheduleTask ==
    /\ spc.pc = "tasks" /\ spc.i <= Len(spc.tasks)
    /\ TaskDue(last_runs, TaskKey(TaskInHand), TaskInHand.t,
               spc.current_time, spc.current_date)
    /\ \E outcome \in {"done", "raised"} :
          LET run == <<TaskKey(TaskInHand), spc.current_date>>
          IN IF outcome = "done"
             THEN /\ executed' = [k \in DOMAIN executed \cup {run} |->
                                     IF k = run THEN GetOrZero(executed, run) + 1
                                     ELSE executed[k]]
                  /\ spc' = [spc EXCEPT !.pc = "save"]
             ELSE /\ executed' = executed
                  /\ spc' = [spc EXCEPT !.pc = "sleep"]
    /\ UNCHANGED <<last_runs, clock, deltaVars, cycleVars, storeVars,
                   rebuildVars, viewVars, monitorVars, replaceVars, serverVars>>

\* Lines 1019-1020: the configuration is saved and the pair is marked as
\* run for the date; when the save raises the pair is not marked and the
\* except clause of the loop ends the iteration.
SaveAndMark ==
    /\ spc.pc = "save"
    /\ \E outcome \in {"saved", "raised"} :
          IF outcome = "saved"
          THEN /\ last_runs' = [k \in DOMAIN last_runs \cup {TaskKey(TaskInHand)} |->
                                   IF k = TaskKey(TaskInHand) THEN spc.current_date
                                   ELSE last_runs[k]]
               /\ spc' = [spc EXCEPT !.pc = "tasks", !.i = spc.i + 1]
          ELSE /\ last_runs' = last_runs
               /\ spc' = [spc EXCEPT !.pc = "sleep"]
    /\ UNCHANGED <<clock, executed, deltaVars, cycleVars, storeVars,
                   rebuildVars, viewVars, monitorVars, replaceVars, serverVars>>

\* Line 1023: the iteration is over, by the end of the for loops or by the
\* except clause, and the loop sleeps SleepSeconds seconds.
Sleep ==
    /\ \/ spc.pc = "sleep"
       \/ spc.pc = "tasks" /\ spc.i > Len(spc.tasks)
    /\ ~(clock.date = MaxDays /\ clock.slot = SlotsPerDay - 1)
    /\ clock' = IF clock.slot = SlotsPerDay - 1
                THEN [date |-> clock.date + 1, slot |-> 0]
                ELSE [clock EXCEPT !.slot = clock.slot + 1]
    /\ spc' = [spc EXCEPT !.pc = "top"]
    /\ UNCHANGED <<last_runs, executed, deltaVars, cycleVars, storeVars,
                   rebuildVars, viewVars, monitorVars, replaceVars, serverVars>>

NextSchedule ==
    \/ ReadClock
    \/ SkipTask
    \/ RunScheduleTask
    \/ SaveAndMark
    \/ Sleep

SpecSchedule == InitSchedule /\ [][NextSchedule]_vars

(***************************************************************************)
(* Claims about the delta engine                                           *)
(***************************************************************************)

\* The identifiers of curr whose outbound counter decreased since prev.
Decreased(p, c) ==
    {sid \in DOMAIN c \cap DOMAIN p :
        /\ p[sid].outbound_bytes # None
        /\ c[sid].outbound_bytes # None
        /\ c[sid].outbound_bytes < p[sid].outbound_bytes}

\* The identifiers of curr that resolve to the same name as sid.
SameName(p, c, sid) == {o \in DOMAIN c : DeltaName(p, c, o) = DeltaName(p, c, sid)}

NoNegativeAmount ==
    \A n \in DOMAIN aggregates : aggregates[n].out >= 0 /\ aggregates[n].in >= 0

\* C1 as stated: once _delta_by_name has run, every identifier present in
\* both snapshots whose outbound reading decreased has has_out = FALSE in the
\* entry of its name, and no entry carries a negative amount.
C1_Original ==
    dpc = "done" =>
        /\ \A sid \in Decreased(prev, curr) :
               ~aggregates[DeltaName(prev, curr, sid)].has_out
        /\ NoNegativeAmount

\* C1 amended: the entry of the name of an identifier whose outbound reading
\* decreased has has_out = FALSE unless another identifier of curr resolves
\* to the same name and has a computable outbound delta of its own; no
\* entry carries a negative amount.
C1_Amended ==
    dpc = "done" =>
        /\ \A sid \in Decreased(prev, curr) :
               aggregates[DeltaName(prev, curr, sid)].has_out
                  => \E o \in SameName(prev, curr, sid) \ {sid} :
                        /\ GetReading(prev, o).outbound_bytes # None
                        /\ curr[o].outbound_bytes # None
                        /\ curr[o].outbound_bytes >= GetReading(prev, o).outbound_bytes
        /\ NoNegativeAmount

\* C1's case: the counter of "1" fell, its entry reports no outbound delta,
\* and another server of the same transition reports one.
C1_Witness ==
    /\ dpc = "done"
    /\ "1" \in Decreased(prev, curr)
    /\ ~aggregates[DeltaName(prev, curr, "1")].has_out
    /\ \E n \in DOMAIN aggregates : aggregates[n].has_out /\ aggregates[n].out > 0

\* m thousandths of a TB is the half-up rounding of diff MiB:
\* m - 1/2 <= diff * 1000 / UnitsPerTB < m + 1/2.
IsHalfUp(m, diff) ==
    /\ (2 * m - 1) * UnitsPerTB <= 2 * 1000 * diff
    /\ 2 * 1000 * diff < (2 * m + 1) * UnitsPerTB

\* The delta of one counter, as C2 states it: has is the flag and amount the
\* amount of the entry, prev_val and curr_val the two readings.
DeltaAsStated(has, amount, prev_val, curr_val) ==
    /\ has <=> (prev_val # None /\ curr_val # None /\ curr_val >= prev_val)
    /\ has => /\ amount % Milli = 0
              /\ IsHalfUp(amount \div Milli, curr_val - prev_val)
    /\ ~has => amount = 0

\* C2: for an identifier that alone carries its name, the outbound delta is
\* reported iff both readings are present and curr >= prev, and is then
\* (curr - prev) in TB rounded half-up to 3 decimals (0 then 1 TiB gives
\* 1.000); otherwise it is absent.  The same holds for the inbound delta,
\* whatever the outbound readings are.
C2_DeltaRule ==
    dpc = "done" =>
        \A sid \in DOMAIN curr :
            SameName(prev, curr, sid) = {sid} =>
                LET e == aggregates[DeltaName(prev, curr, sid)]
                    pr == GetReading(prev, sid)
                IN /\ DeltaAsStated(e.has_out, e.out,
                                    pr.outbound_bytes, curr[sid].outbound_bytes)
                   /\ DeltaAsStated(e.has_in, e.in,
                                    pr.inbound_bytes, curr[sid].inbound_bytes)
                   /\ (pr.outbound_bytes = 0 /\ curr[sid].outbound_bytes = UnitsPerTB)
                         => (e.has_out /\ e.out = 1000 * Milli)

\* C2's case: "1" alone carries the name web, went from 0 to 1 TiB out and
\* lost inbound count: the outbound delta is 1.000, the inbound one absent.
C2_Witness ==
    /\ dpc = "done"
    /\ "1" \in DOMAIN prev /\ "1" \in DOMAIN curr
    /\ curr["1"].name = "web"
    /\ SameName(prev, curr, "1") = {"1"}
    /\ prev["1"].outbound_bytes = 0 /\ curr["1"].outbound_bytes = UnitsPerTB
    /\ prev["1"].inbound_bytes = UnitsPerTB /\ curr["1"].inbound_bytes = 0
    /\ aggregates["web"].has_out /\ aggregates["web"].out = 1000 * Milli
    /\ ~aggregates["web"].has_in

(***************************************************************************)
(* Claims about the cycle accounting engine                                *)
(***************************************************************************)

\* The identifier sid is the only one of the series and reports the
\* outbound readings 5 TB, 1 TB and 2 TB in three buckets.
FiveOneTwo(series, sid) ==
    /\ DOMAIN series = HourKeys(3)
    /\ \A k \in DOMAIN series : DOMAIN series[k] = {sid}
    /\ series[FirstHour][sid].outbound_bytes = 5 * TB
    /\ series[FirstHour + 1][sid].outbound_bytes = TB
    /\ series[FirstHour + 2][sid].outbound_bytes = 2 * TB

\* C3: for a three-bucket series in which one identifier, whatever its
\* display name, reports 5 TB, 1 TB and 2 TB, the result records the second
\* bucket as a rebuild, with a cumulative usage of 0.000 at the second
\* bucket's point and of 1.000 at the third bucket's point.
C3_ResetThenGrowth ==
    cpc = "done" =>
        \A sid \in DOMAIN cycle :
            FiveOneTwo(hourly, sid) =>
                /\ cycle[sid].rebuilds = <<FirstHour + 1>>
                /\ cycle[sid].points[1].cycle_out_cum_tb = 0
                /\ cycle[sid].points[2].cycle_out_cum_tb = 1000 * Milli

\* The sum of out_tb_h over the points i..m.
RECURSIVE SumOutTbH(_, _, _)
SumOutTbH(points, i, m) ==
    IF i > m THEN 0 ELSE points[i].out_tb_h + SumOutTbH(points, i + 1, m)

\* The hours of the points i..m.
TimesOf(points, i, m) == {points[l].time : l \in i .. m}

InRebuilds(e, time) == \E j \in 1 .. Len(e.rebuilds) : e.rebuilds[j] = time

\* C4: for every server and every hour of its rebuilds, the point of that
\* hour has cycle_age_h = 0, and at that point and at every later point
\* before the next rebuild, cycle_out_cum_tb is the sum of out_tb_h from the
\* reset point on.
C4_CycleReset ==
    cpc = "done" =>
        \A sid \in DOMAIN cycle :
            LET e == cycle[sid]
            IN \A j \in 1 .. Len(e.rebuilds) :
                 \E i \in 1 .. Len(e.points) :
                    /\ e.points[i].time = e.rebuilds[j]
                    /\ e.points[i].cycle_age_h = 0
                    /\ \A m \in i .. Len(e.points) :
                          (\A l \in (i + 1) .. m : ~InRebuilds(e, e.points[l].time))
                             => e.points[m].cycle_out_cum_tb = SumOutTbH(e.points, i, m)

\* C4's case: a server without display name reports 5 TB, 1 TB and 2 TB:
\* the second bucket is a reset with age 0 and nothing accumulated, and the
\* third bucket's cumulative usage is the 1.000 TB used since.
C4_Witness ==
    /\ cpc = "done"
    /\ "1" \in DOMAIN cycle
    /\ Len(cycle["1"].points) = 2
    /\ cycle["1"].rebuilds = <<FirstHour + 1>>
    /\ cycle["1"].points[1].cycle_age_h = 0
    /\ cycle["1"].points[1].cycle_out_cum_tb = 0
    /\ cycle["1"].points[2].out_tb_h = 1000 * Milli
    /\ cycle["1"].points[2].cycle_out_cum_tb = 1000 * Milli

\* The bucket before k in the sorted series.
PrevKey(series, k) == CHOOSE j \in DOMAIN series :
                          j < k /\ \A o \in DOMAIN series : o < k => o <= j

\* C5: for every server and every transition, out_tb_h is the identifier's
\* own outbound delta, (curr - prev) in TB when both readings are present
\* and curr >= prev, and 0.000 only when no delta is computable.
C5_OwnDelta ==
    cpc = "done" =>
        \A sid \in DOMAIN cycle :
            \A i \in 1 .. Len(cycle[sid].points) :
                LET pt == cycle[sid].points[i]
                    p == GetReading(hourly[PrevKey(hourly, pt.time)], sid)
                    c == GetReading(hourly[pt.time], sid)
                    own == CounterDelta(p.outbound_bytes, c.outbound_bytes)
                IN pt.out_tb_h = IF own # None THEN own ELSE 0

\* The hours at which the outbound counter of sid fell: both buckets hold a
\* reading and the later one is strictly smaller.
CounterFell(series, sid, k) ==
    LET p == GetReading(series[PrevKey(series, k)], sid).outbound_bytes
        c == GetReading(series[k], sid).outbound_bytes
    IN p # None /\ c # None /\ c < p

\* C6: the rebuilds of every server are exactly, in chronological order, the
\* buckets after the first in which its outbound reading is strictly smaller
\* than in the bucket before, both readings being present.
C6_RebuildsExact ==
    cpc = "done" =>
        \A sid \in DOMAIN cycle :
            LET Fell(k) == CounterFell(hourly, sid, k)
            IN cycle[sid].rebuilds = SelectSeq(Tail(SortedKeys(DOMAIN hourly)), Fell)

\* C6's case: the counter of "1" fell in the second bucket and stayed equal
\* in the third: one rebuild is recorded.
C6_Witness ==
    /\ cpc = "done"
    /\ DOMAIN hourly = HourKeys(3)
    /\ "1" \in DOMAIN cycle
    /\ \A k \in DOMAIN hourly : "1" \in DOMAIN hourly[k]
    /\ hourly[FirstHour]["1"].outbound_bytes = 2 * TB
    /\ hourly[FirstHour + 1]["1"].outbound_bytes = TB
    /\ hourly[FirstHour + 2]["1"].outbound_bytes = TB
    /\ cycle["1"].rebuilds = <<FirstHour + 1>>

(***************************************************************************)
(* Claims about the snapshot store                                         *)
(***************************************************************************)

\* Every bucket of the series a is a bucket of b with the same snapshot.
Keeps(a, b) == \A k \in DOMAIN a : k \in DOMAIN b /\ b[k] = a[k]

\* C7: a report whose hour bucket exists leaves that bucket and every other
\* bucket as stored and collects no snapshot for it; a report whose hour
\* bucket does not exist adds exactly that one bucket.
C7_IdempotentRecord ==
    [][op' = "report" =>
          IF now \in DOMAIN report_state.hourly
          THEN /\ report_state'.hourly = report_state.hourly
               /\ ~rec_collected'
          ELSE /\ DOMAIN report_state'.hourly = DOMAIN report_state.hourly \cup {now}
               /\ Keeps(report_state.hourly, report_state'.hourly)
               /\ report_state'.hourly[now] \in ProviderSnapshots
               /\ rec_collected']_vars

\* C7's case: two buckets are stored, and the last report found its own
\* bucket stored with another snapshot than the current one and left it.
C7_Witness ==
    /\ op = "report"
    /\ ~rec_collected
    /\ Cardinality(DOMAIN report_state.hourly) = 2
    /\ now \in DOMAIN report_state.hourly
    /\ report_state.hourly[now] # report_state.servers

\* C8: the persisted series is append-only: whatever operation runs, every
\* hour bucket that was stored is still stored with the same snapshot.
C8_AppendOnly ==
    [][Keeps(report_state.hourly, report_state'.hourly)]_vars

(***************************************************************************)
(* Claims about rebuilds                                                   *)
(***************************************************************************)

\* The threads inside client.rebuild_server for the server sid.
InFlight(sid) == {p \in Procs : pc[p] = "rebuilding" /\ target[p] = sid}

\* C9: at no time are two executions of rebuild_server for the same server
\* identifier between their start and their return, whichever entry points
\* started them.
C9_OneRebuildInFlight ==
    \A sid \in Ids : Cardinality(InFlight(sid)) <= 1

\* The lock of sid is held.
Held(lk, sid) == sid \in DOMAIN lk /\ lk[sid] # Free

\* C10: a call of _perform_rebuild that finds the lock of its server held
\* returns "rebuild already in progress" at once, having called
\* rebuild_server and sent notifications zero times and leaving the locks as
\* they are; a call that finds the lock of its server free acquires it,
\* whatever other servers' locks are held.  The call is never made to wait.
C10_FailFast ==
    /\ [][\A p \in LockedProcs :
            (pc[p] = "call" /\ pc'[p] # "call") =>
                IF Held(locks, target[p])
                THEN /\ pc'[p] = "idle"
                     /\ result'[p] = "busy"
                     /\ sent'[p] = 0 /\ calls'[p] = 0
                     /\ locks' = locks
                ELSE /\ pc'[p] = "locked"
                     /\ locks'[target[p]] = p]_vars
    /\ [](\A p \in LockedProcs : pc[p] = "call" => ENABLED AcquireOrFail(p))

\* C10's case: the bot's /rebuild of server 1 was refused while the monitor
\* is inside rebuild_server for server 1.
C10_Witness ==
    /\ pc["monitor"] = "rebuilding" /\ target["monitor"] = "1"
    /\ pc["bot"] = "idle" /\ result["bot"] = "busy" /\ target["bot"] = "1"
    /\ sent["bot"] = 0 /\ calls["bot"] = 0
    /\ telegram


(***************************************************************************)
(* Claims about the snapshot merge                                         *)
(***************************************************************************)

\* The display name of sid in a snapshot, the identifier when it has none.
NameOrId(snapshot, sid) ==
    IF snapshot[sid].name = NoName THEN sid ELSE snapshot[sid].name

\* The field of a merged entry is the sum of the non-null readings of the
\* identifiers that carry the name n, and null iff there is none.
FieldMerged(entry, snapshot, n, field) ==
    LET with == {sid \in DOMAIN snapshot :
                    NameOrId(snapshot, sid) = n /\ snapshot[sid][field] # None}
    IN IF with = {} THEN entry[field] = None
       ELSE /\ entry[field] # None
            /\ entry[field] = SumMap(with, [sid \in with |-> snapshot[sid][field]])

\* C11: the merged series has the buckets of the stored series; a merged
\* bucket has one entry per display name of the bucket (the identifier for
\* a server without name), whose outbound_bytes is the sum of the non-null
\* outbound readings of the identifiers carrying the name, null iff all are
\* null, and likewise, independently, for inbound_bytes.
C11_MergeByName ==
    vpc = "merged" =>
        /\ DOMAIN view = DOMAIN vhourly
        /\ \A k \in DOMAIN vhourly :
              /\ DOMAIN view[k] = {NameOrId(vhourly[k], sid) : sid \in DOMAIN vhourly[k]}
              /\ \A n \in DOMAIN view[k] :
                    /\ view[k][n].name = n
                    /\ FieldMerged(view[k][n], vhourly[k], n, "outbound_bytes")
                    /\ FieldMerged(view[k][n], vhourly[k], n, "inbound_bytes")

\* C11's case: in the first bucket "1" reports 1 TB out and no inbound
\* counter, "2" carries the same name and reports no outbound counter and
\* 1 TB in: the merged entry has 1 TB out and 1 TB in.  In the second bucket
\* "2" has no name and is merged under its identifier, without outbound
\* counter.
C11_Witness ==
    /\ vpc = "merged"
    /\ DOMAIN vhourly = HourKeys(2)
    /\ DOMAIN vhourly[FirstHour] = Ids
    /\ vhourly[FirstHour]["1"].outbound_bytes = TB
    /\ vhourly[FirstHour]["1"].inbound_bytes = None
    /\ vhourly[FirstHour]["2"].name = "web"
    /\ view[FirstHour] = [n \in {"web"} |->
                            [name |-> "web", outbound_bytes |-> TB, inbound_bytes |-> TB]]
    /\ "2" \in DOMAIN view[FirstHour + 1]
    /\ view[FirstHour + 1]["2"].outbound_bytes = None

(***************************************************************************)
(* Claims about the aggregation views                                      *)
(***************************************************************************)

\* What the transition into the bucket k adds to a total: the amounts of the
\* names that have a computable delta of the direction.
Computable(series, k, flag, dir) ==
    LET deltas == _delta_by_name(series[PrevKey(series, k)], series[k])
        with == {n \in DOMAIN deltas : deltas[n][flag]}
    IN SumMap(with, [n \in with |-> deltas[n][dir]])

\* The sum of the computable deltas of the transitions into the buckets of K.
WindowTotal(series, K, flag, dir) ==
    SumMap(K, [k \in K |-> Computable(series, k, flag, dir)])

\* C12: the tracking totals of an empty series are zero with a null start;
\* with a start that no bucket reaches they are zero and labelled with that
\* start; otherwise they are the sums of the computable outbound and inbound
\* deltas of all names over the transitions after the first bucket >= start
\* (after the first bucket of the series when no start is given), labelled
\* with the start given, else with the first bucket.
C12_TrackingWindow ==
    vpc = "tracking" =>
        LET series == _merge_hourly_series(vhourly)
            reached == {k \in DOMAIN series : varg # None /\ k >= varg}
        IN IF DOMAIN series = {}
           THEN view = [start |-> None, outbound_tb |-> 0, inbound_tb |-> 0]
           ELSE IF varg # None /\ reached = {}
           THEN view = [start |-> varg, outbound_tb |-> 0, inbound_tb |-> 0]
           ELSE LET from == IF varg = None THEN Least(DOMAIN series) ELSE Least(reached)
                    window == {k \in DOMAIN series : k > from}
                IN /\ view.start = IF varg = None THEN Least(DOMAIN series) ELSE varg
                   /\ view.outbound_tb = WindowTotal(series, window, "has_out", "out")
                   /\ view.inbound_tb = WindowTotal(series, window, "has_in", "in")

\* C12's case: the series holds 1 TB of outbound growth and the start lies
\* after its last bucket: the totals are zero and carry the start.
C12_Witness ==
    /\ vpc = "tracking"
    /\ DOMAIN vhourly = HourKeys(2)
    /\ varg = FirstHour + 2
    /\ "1" \in DOMAIN vhourly[FirstHour] /\ "1" \in DOMAIN vhourly[FirstHour + 1]
    /\ vhourly[FirstHour]["1"].outbound_bytes = TB
    /\ vhourly[FirstHour + 1]["1"].outbound_bytes = 2 * TB
    /\ view = [start |-> FirstHour + 2, outbound_tb |-> 0, inbound_tb |-> 0]

\* The outbound reading of sid in the bucket k, None when the bucket does not
\* hold the identifier.
OutAt(series, sid, k) == GetReading(series[k], sid).outbound_bytes

\* In the bucket k the outbound reading of sid is strictly smaller than its
\* most recent earlier non-null reading.
FellSinceLastReading(series, sid, k) ==
    /\ OutAt(series, sid, k) # None
    /\ \E j \in DOMAIN series :
          /\ j < k
          /\ OutAt(series, sid, j) # None
          /\ \A m \in DOMAIN series : (j < m /\ m < k) => OutAt(series, sid, m) = None
          /\ OutAt(series, sid, k) < OutAt(series, sid, j)

\* C13: an identifier is mapped to the hour h iff h is the latest bucket in
\* which its outbound reading is strictly smaller than its most recent
\* earlier non-null reading; an identifier without such a bucket is not in
\* the result.
C13_LastRebuilds ==
    vpc = "rebuilds" =>
        /\ DOMAIN view \subseteq Ids
        /\ \A sid \in Ids :
              LET falls == {k \in DOMAIN vhourly : FellSinceLastReading(vhourly, sid, k)}
              IN IF falls = {} THEN sid \notin DOMAIN view
                 ELSE sid \in DOMAIN view /\ view[sid] = Greatest(falls)

\* C13's case: "1" reports 2 TB, then nothing (it is missing or its reading
\* is null), then 1 TB: the third bucket is its last rebuild; "2", whose
\* readings never fall, is not in the result.
C13_Witness ==
    /\ vpc = "rebuilds"
    /\ DOMAIN vhourly = HourKeys(3)
    /\ OutAt(vhourly, "1", FirstHour) = 2 * TB
    /\ OutAt(vhourly, "1", FirstHour + 1) = None
    /\ OutAt(vhourly, "1", FirstHour + 2) = TB
    /\ view = [sid \in {"1"} |-> FirstHour + 2]

(***************************************************************************)
(* Further claims about the cycle accounting engine                        *)
(***************************************************************************)

\* C14: every server of the result has one point per transition, in the
\* order of the buckets, and the age of a point is 0 at the first transition
\* and at a reset hour, and otherwise one more than the age of the point
\* before.
C14_AgeCounts ==
    cpc = "done" =>
        \A sid \in DOMAIN cycle :
            LET points == cycle[sid].points
                keys == SortedKeys(DOMAIN hourly)
            IN /\ Len(points) = Len(keys) - 1
               /\ \A i \in 1 .. Len(points) :
                     /\ points[i].time = keys[i + 1]
                     /\ points[i].cycle_age_h =
                           IF i = 1 \/ CounterFell(hourly, sid, keys[i + 1]) THEN 0
                           ELSE points[i - 1].cycle_age_h + 1

\* C14's case: "1" is stored in the first bucket only, "2" in all three and
\* its counter never falls: both have a point for each of the two
\* transitions, with the ages 0 and 1.
C14_Witness ==
    /\ cpc = "done"
    /\ DOMAIN hourly = HourKeys(3)
    /\ "1" \in DOMAIN hourly[FirstHour]
    /\ "1" \notin DOMAIN hourly[FirstHour + 1] /\ "1" \notin DOMAIN hourly[FirstHour + 2]
    /\ DOMAIN cycle = Ids
    /\ \A sid \in Ids :
          /\ Len(cycle[sid].points) = 2
          /\ cycle[sid].points[1].cycle_age_h = 0
          /\ cycle[sid].points[2].cycle_age_h = 1

\* The buckets in which sid is stored with a display name.
NamedBuckets(series, sid) ==
    {k \in DOMAIN series : sid \in DOMAIN series[k] /\ series[k][sid].name # NoName}

\* C15: the name reported for a server is its entry in the override map when
\* there is one; otherwise the name of the first bucket, the first bucket of
\* the series included, in which the identifier is stored with a name;
\* otherwise the identifier.
C15_NamePrecedence ==
    cpc = "done" =>
        \A sid \in DOMAIN cycle :
            cycle[sid].name =
                IF sid \in DOMAIN name_map THEN name_map[sid]
                ELSE IF NamedBuckets(hourly, sid) # {}
                THEN hourly[Least(NamedBuckets(hourly, sid))][sid].name
                ELSE sid

(***************************************************************************)
(* Further claims about the delta engine                                   *)
(***************************************************************************)

\* The counter of sid (a field of its readings) has a computable delta: the
\* same identifier has a reading in prev, both readings are non-null and the
\* later one is not smaller.
Paired(p, c, sid, field) ==
    /\ sid \in DOMAIN p
    /\ p[sid][field] # None /\ c[sid][field] # None
    /\ c[sid][field] >= p[sid][field]

\* The name to which the delta of sid is attributed: curr's, else prev's,
\* else the identifier.
AttributedName(p, c, sid) ==
    IF c[sid].name # NoName THEN c[sid].name
    ELSE IF sid \in DOMAIN p /\ p[sid].name # NoName THEN p[sid].name
    ELSE sid

\* The flag and the amount of an entry are those of the identifiers of S:
\* the flag is set iff one of them has a computable delta, the amount is the
\* sum of their computable deltas.
SumsPaired(has, amount, p, c, S, field) ==
    LET with == {sid \in S : Paired(p, c, sid, field)}
    IN /\ has <=> with # {}
       /\ amount = SumMap(with, [sid \in with |-> _bytes_to_tb(c[sid][field] - p[sid][field])])

\* C18: the result has exactly one entry per name to which an identifier of
\* curr is attributed; the entry of a name sums the deltas that the
\* identifiers attributed to it have against their own earlier readings,
\* and has_out (has_in) is set iff one of them has a computable outbound
\* (inbound) delta.
C18_PairedById ==
    dpc = "done" =>
        /\ DOMAIN aggregates = {AttributedName(prev, curr, sid) : sid \in DOMAIN curr}
        /\ \A n \in DOMAIN aggregates :
              LET S == {sid \in DOMAIN curr : AttributedName(prev, curr, sid) = n}
                  e == aggregates[n]
              IN /\ SumsPaired(e.has_out, e.out, prev, curr, S, "outbound_bytes")
                 /\ SumsPaired(e.has_in, e.in, prev, curr, S, "inbound_bytes")

\* C18's case: "1" is named web and grew by 1 TiB, "2" lost its name, was
\* named web before and grew by 65536 MiB, and only "1" has an inbound
\* delta: the one entry, web, has 1.063 TB out and 1.000 TB in.
C18_Witness ==
    /\ dpc = "done"
    /\ DOMAIN prev = Ids /\ DOMAIN curr = Ids
    /\ curr["1"].name = "web" /\ curr["2"].name = NoName /\ prev["2"].name = "web"
    /\ prev["1"].outbound_bytes = 0 /\ curr["1"].outbound_bytes = 1048576
    /\ prev["2"].outbound_bytes = 0 /\ curr["2"].outbound_bytes = 65536
    /\ prev["1"].inbound_bytes = 0 /\ curr["1"].inbound_bytes = 1048576
    /\ curr["2"].inbound_bytes = None
    /\ aggregates = [n \in {"web"} |->
                        [out |-> 1063 * Milli, in |-> 1000 * Milli,
                         has_out |-> TRUE, has_in |-> TRUE]]

(***************************************************************************)
(* Further claims about the views                                          *)
(***************************************************************************)

\* C16: every server in the result of /api/cycle is one of the servers that
\* exist, the include_ids the endpoint supplies, also when no server exists.
C16_OnlyIncluded ==
    vpc = "cycle" => DOMAIN view \subseteq DOMAIN varg

\* C17: with fewer than 2 buckets stored, the cycle view has no servers, the
\* daily view has no days and a zero peak, total, in_peak and in_total, and
\* the hourly report is the text for missing or insufficient data.
C17_InsufficientHistory ==
    Cardinality(DOMAIN vhourly) < 2 =>
        /\ vpc = "cycle" => view = EmptyMap
        /\ vpc = "daily" =>
              view = [days |-> <<>>, peak |-> 0, total |-> 0,
                      in_peak |-> 0, in_total |-> 0, servers |-> EmptyMap]
        /\ vpc = "hourly" => view \in {[text |-> "no data"], [text |-> "insufficient data"]}

\* The buckets after the first whose calendar date is date.
BucketsOn(series, date) ==
    {k \in DOMAIN series : k # Least(DOMAIN series) /\ k \div 24 = date}

\* The sum over the names listed in the daily view of the field of their
\* j-th row.
SumOverNames(servers, j, field) ==
    SumMap(DOMAIN servers, [n \in DOMAIN servers |-> servers[n][j][field]])

\* C19: every reported date's outbound (inbound) total is the sum of the
\* outbound (inbound) deltas of the transitions whose later bucket falls on
\* the date, and equals the sum over the listed server names of the name's
\* outbound (inbound) total of the date.
C19_DailyAttribution ==
    (vpc = "daily" /\ Cardinality(DOMAIN vhourly) >= 2) =>
        \A j \in 1 .. Len(view.days) :
            LET day == view.days[j]
                on == BucketsOn(vhourly, day.date)
            IN /\ day.outbound_tb = WindowTotal(vhourly, on, "has_out", "out")
               /\ day.inbound_tb = WindowTotal(vhourly, on, "has_in", "in")
               /\ \A n \in DOMAIN view.servers : view.servers[n][j].date = day.date
               /\ day.outbound_tb = SumOverNames(view.servers, j, "outbound_tb")
               /\ day.inbound_tb = SumOverNames(view.servers, j, "inbound_tb")

\* The calendar dates with data: a transition into one of their buckets has
\* a computable outbound or inbound delta.
DatesWithData(series) ==
    {k \div 24 : k \in {b \in DOMAIN series \ {Least(DOMAIN series)} :
        LET deltas == _delta_by_name(series[PrevKey(series, b)], series[b])
        IN \E n \in DOMAIN deltas : deltas[n].has_out \/ deltas[n].has_in}}

\* C20: the days of the daily view are, in ascending order, the most recent
\* DayWindow dates with data, or all of them when there are fewer; peak and
\* in_peak are the largest and total and in_total the sum of the day totals
\* of these days, zero when there are none.
C20_DayWindow ==
    (vpc = "daily" /\ Cardinality(DOMAIN vhourly) >= 2) =>
        LET dates == SortedKeys(DatesWithData(vhourly))
        IN /\ [j \in 1 .. Len(view.days) |-> view.days[j].date] = LastOf(dates, DayWindow)
           /\ view.peak = MaxOf(view.days, "outbound_tb")
           /\ view.in_peak = MaxOf(view.days, "inbound_tb")
           /\ view.total = SumOf(view.days, "outbound_tb")
           /\ view.in_total = SumOf(view.days, "inbound_tb")

(***************************************************************************)
(* Claims about quantization                                               *)
(***************************************************************************)

\* The bytes (in MiB) by which the counters of the field grew over the
\* transition into the bucket k: the differences of the names whose two
\* readings are present and did not decrease.
GrownBy(series, k, field) ==
    LET p == series[PrevKey(series, k)]
        c == series[k]
        with == {n \in DOMAIN c :
                    /\ GetReading(p, n)[field] # None /\ c[n][field] # None
                    /\ c[n][field] >= GetReading(p, n)[field]}
    IN SumMap(with, [n \in with |-> c[n][field] - GetReading(p, n)[field]])

\* The transitions the tracking totals cover: those into the buckets after
\* the first bucket >= start (after the first bucket when start is None).
TrackingWindow(series, start) ==
    LET reached == {k \in DOMAIN series : start # None /\ k >= start}
    IN IF DOMAIN series = {} \/ (start # None /\ reached = {}) THEN {}
       ELSE LET from == IF start = None THEN Least(DOMAIN series) ELSE Least(reached)
            IN {k \in DOMAIN series : k > from}

\* The exact usage of the window in TB, rounded half-up to 3 digits.
ExactTotal(series, window, field) ==
    _bytes_to_tb(SumMap(window, [k \in window |-> GrownBy(series, k, field)]))

\* C21: the tracking totals have exactly 3 fractional digits and are the
\* half-up rounding of the exact usage, in TB, that they aggregate: the sum
\* of the byte differences over the transitions of the window.
C21_Quantized ==
    vpc = "tracking" =>
        LET series == _merge_hourly_series(vhourly)
            window == TrackingWindow(series, varg)
        IN /\ view.outbound_tb % Milli = 0
           /\ view.inbound_tb % Milli = 0
           /\ view.outbound_tb = ExactTotal(series, window, "outbound_bytes")
           /\ view.inbound_tb = ExactTotal(series, window, "inbound_bytes")

(***************************************************************************)
(* Claims about malformed readings                                         *)
(***************************************************************************)

\* The reading of sid in the field is not a number in one of the snapshots.
Malformed(p, c, sid, field) ==
    GetReading(p, sid)[field] = Bad \/ c[sid][field] = Bad

\* C22: _delta_by_name never raises on a malformed reading: the call returns,
\* a name whose identifiers all have a malformed reading of a direction has
\* no delta of that direction, and every other identifier has the delta of
\* its own two readings.
C22_MalformedTolerated ==
    dpc \in {"done", "raised"} =>
        /\ dpc = "done"
        /\ \A n \in DOMAIN aggregates :
              LET sids == {sid \in DOMAIN curr : DeltaName(prev, curr, sid) = n}
              IN /\ (\A sid \in sids : Malformed(prev, curr, sid, "outbound_bytes"))
                        => ~aggregates[n].has_out
                 /\ (\A sid \in sids : Malformed(prev, curr, sid, "inbound_bytes"))
                        => ~aggregates[n].has_in
        /\ \A sid \in DOMAIN curr :
              /\ ~Malformed(prev, curr, sid, "outbound_bytes")
              /\ OutDelta(prev, curr, sid) # None
              => aggregates[DeltaName(prev, curr, sid)].has_out

(***************************************************************************)
(* Claims about the traffic monitor                                        *)
(***************************************************************************)

\* The pass for the server in hand is complete and saw it at or over the
\* limit.
PassOverLimit ==
    mpc = "idle" /\ mcur.outgoing # None /\ mcur.outgoing >= MonitorLimit

\* C23: with exceed_action rebuild, every pass that sees a server at or over
\* the limit, no automatic rebuild having succeeded for it since its counter
\* last fell, attempts a rebuild of it, whatever levels are configured,
\* were notified or failed to send.
C23_RebuildAttempted ==
    /\ PassOverLimit
    /\ mcfg.exceed_action \in {"rebuild", "delete_rebuild"}
    /\ ~mlog[mcur.sid].succeeded
    => mcur.tried = "rebuild"

\* The highest of the configured levels that the reading reaches, 0 if none.
HighestReached(outgoing) ==
    LET reached == Reached(_parse_alert_levels(mcfg.notify_levels), outgoing)
    IN IF reached = {} THEN 0 ELSE Greatest(reached)

\* The step observes for sid a counter below the one observed before.
ObservesDecrease(sid) ==
    /\ mpc = "idle" /\ mcur'.sid = sid /\ mcur'.outgoing # None
    /\ AlertOf(ALERT_STATE, sid).last_outgoing # None
    /\ mcur'.outgoing < AlertOf(ALERT_STATE, sid).last_outgoing

\* C25: a threshold notification is sent only for the highest level reached
\* and only when that level is above the last level delivered since the
\* counter last fell; last_level is raised only to a level whose
\* notification was delivered, and it falls, to 0 and together with
\* auto_rebuild, exactly in the steps that observe a lower counter.
C25_LevelsStep ==
    \A sid \in Ids :
        LET a == AlertOf(ALERT_STATE, sid)
            b == AlertOf(ALERT_STATE', sid)
        IN /\ (mpc = "notify" /\ mcur.sid = sid /\ mcur'.sent)
                 => /\ mcur.new_level = HighestReached(mcur.outgoing)
                    /\ mcur.new_level > mlog[sid].notified
           /\ b.last_level > a.last_level
                 => /\ mpc = "notify" /\ mcur.sid = sid /\ mcur'.delivered
                    /\ b.last_level = mcur.new_level
           /\ (b.last_level < a.last_level \/ (a.auto_rebuild /\ ~b.auto_rebuild))
                 => ObservesDecrease(sid)
           /\ ObservesDecrease(sid) => (b.last_level = 0 /\ ~b.auto_rebuild)
           /\ a.last_level = mlog[sid].notified

C25_Levels == [][C25_LevelsStep]_vars

\* C25's case: level 80 was delivered for a server, and a later pass that
\* sees it at 85 percent sends nothing.
C25_Witness ==
    /\ mpc = "idle" /\ mcfg.enabled
    /\ mcur.outgoing = 85 /\ mcur.new_level = 80 /\ ~mcur.sent /\ ~mcur.decreased
    /\ ALERT_STATE[mcur.sid].last_level = 80

\* C27: an automatic rebuild or delete is triggered for a server only when
\* none has succeeded for it since its counter last fell; one that fails
\* leaves auto_rebuild false and one that succeeds sets it.
C27_OnceStep ==
    (mpc = "exceed" /\ mcur'.tried # "none")
        => /\ ~mlog[mcur.sid].succeeded
           /\ ALERT_STATE'[mcur.sid].auto_rebuild = (mcur'.outcome = "success")

C27_Once == [][C27_OnceStep]_vars

\* C27's case: an automatic rebuild succeeded for the server, and a later
\* pass that notifies a level and sees it over the limit triggers nothing.
C27_Witness ==
    /\ PassOverLimit /\ mcfg.exceed_action = "rebuild"
    /\ mcur.sent /\ ~mcur.decreased
    /\ mlog[mcur.sid].succeeded /\ ALERT_STATE[mcur.sid].auto_rebuild
    /\ mcur.tried = "none"

(***************************************************************************)
(* Claims about the DNS update after a rebuild                             *)
(***************************************************************************)

\* C24: after a successful rebuild of the server configured with a DNS
\* record, or of a replacement of it, an update of that record to the new
\* server is attempted; after a failed rebuild none is attempted.
C24_DnsFollowsRebuild ==
    last_rebuild.via # "none" =>
        IF last_rebuild.success
        THEN last_rebuild.server_id \in DOMAIN lineage
                => last_rebuild.dns = [record |-> lineage[last_rebuild.server_id],
                                       content |-> last_rebuild.new_server_id]
        ELSE last_rebuild.dns = NoDns

(***************************************************************************)
(* Claims about the tracking totals of the merged and the raw series       *)
(***************************************************************************)

\* Every display name is carried by at most one identifier in each bucket.
OneIdPerName(series) ==
    \A k \in DOMAIN series : \A a, b \in DOMAIN series[k] :
        NameOrId(series[k], a) = NameOrId(series[k], b) => a = b

\* The buckets that have an earlier bucket.
LaterBuckets(series) ==
    IF DOMAIN series = {} THEN {} ELSE DOMAIN series \ {Least(DOMAIN series)}

\* Every identifier that two adjacent buckets hold has the same display name
\* in both.
KeepsNames(series) ==
    \A k \in LaterBuckets(series) :
        LET p == series[PrevKey(series, k)]
            c == series[k]
        IN \A sid \in DOMAIN c \cap DOMAIN p : NameOrId(c, sid) = NameOrId(p, sid)

\* Whenever a name passes to an identifier that the earlier bucket does not
\* hold, each counter of the new identifier is missing or below the one the
\* name had, or that one is missing.
RestartsBelow(series) ==
    \A k \in LaterBuckets(series) :
        LET p == series[PrevKey(series, k)]
            c == series[k]
        IN \A sid \in DOMAIN c \ DOMAIN p : \A o \in DOMAIN p :
              NameOrId(p, o) = NameOrId(c, sid)
                 => \A field \in {"outbound_bytes", "inbound_bytes"} :
                       \/ p[o][field] = None \/ c[sid][field] = None
                       \/ c[sid][field] < p[o][field]

InsideRebuild(p) == pc[p] \in {"locked", "rebuilding", "dns"}

\* C28: a lock of REBUILD_LOCKS is held only by a thread that is inside a
\* _perform_rebuild call for that server: every call that acquired the lock
\* has released it when it returns, whether the rebuild succeeded, failed
\* or raised, so a request made when no call for the server is in progress
\* acquires the lock.
C28_LockReleased ==
    /\ \A sid \in DOMAIN locks :
          locks[sid] # Free
             => /\ locks[sid] \in LockedProcs
                /\ InsideRebuild(locks[sid])
                /\ target[locks[sid]] = sid
    /\ \A p \in LockedProcs :
          (pc[p] = "call" /\ \A q \in LockedProcs : ~(InsideRebuild(q) /\ target[q] = target[p]))
             => TryAcquire(locks, target[p])

\* C28's case: the bot's rebuild of server 1 raised, and the monitor's later
\* rebuild of server 1 holds the lock.
C28_Witness ==
    /\ pc["bot"] = "idle" /\ result["bot"] = "raised" /\ target["bot"] = "1"
    /\ calls["bot"] = 1
    /\ pc["monitor"] = "locked" /\ target["monitor"] = "1"
    /\ locks["1"] = "monitor"

(***************************************************************************)
(* Claims about rebuild_server                                             *)
(***************************************************************************)

\* The number of requests of a kind that the call has issued.
Issued(kind) == Cardinality({i \in DOMAIN api_log : api_log[i] = kind})

\* The image the call is to use: the one mapped to the identifier, else the
\* one mapped to the name, else the newest snapshot.
ImageToUse ==
    IF rs.server_id \in DOMAIN rs.snapshot_id_map THEN rs.snapshot_id_map[rs.server_id]
    ELSE IF rs.name \in DOMAIN rs.snapshot_id_map THEN rs.snapshot_id_map[rs.name]
    ELSE LET newest == Greatest({x.created : x \in rs.snapshots})
         IN (CHOOSE x \in rs.snapshots : x.created = newest).id

\* C29: the delete is issued only after the old server was found and its
\* image determined; no create is issued unless the delete succeeded; at
\* most 3 creates are issued; the call returns success only if a create
\* returned a server, and when all creates fail it returns failure with the
\* old server deleted.
C29_RebuildOrder ==
    /\ Issued("delete_server") > 0
          => /\ api_log[1] = "get_server" /\ rs.old_server
             /\ rs.image # Nothing /\ rs.image = ImageToUse
    /\ Issued("delete_server") <= 1
    /\ Issued("create_server") > 0 => rs.deleted
    /\ Issued("create_server") <= 3
    /\ Issued("create_server") = rs.creates
    /\ rs.result = "success"
          => /\ rs.new_server # Nothing
             /\ api_log[Len(api_log)] = "create_server"
    /\ (rs.pc = "returned" /\ rs.deleted /\ rs.new_server = Nothing)
          => /\ rs.result = "create failed"
             /\ Issued("create_server") = 3

\* C29's case: the three creates failed and the call returned failure with
\* the old server deleted.
C29_Witness ==
    /\ rs.pc = "returned" /\ rs.result = "create failed"
    /\ rs.deleted /\ rs.creates = 3
    /\ api_log = <<"get_server", "get_snapshots", "delete_server",
                   "create_server", "create_server", "create_server">>

(***************************************************************************)
(* Claims about the scheduler                                              *)
(***************************************************************************)

\* The completed executions of the action of a pair on a date.
Executions(key, date) == GetOrZero(executed, <<key, date>>)

\* C30: the action of an (action, t) pair is executed at most once per
\* date, however many iterations fall in the minute t and whether or not an
\* iteration ends with an exception; and a pair is marked as run for a date
\* only after its action and the save of the configuration completed.
C30_OncePerDate ==
    /\ \A run \in DOMAIN executed : executed[run] <= 1
    /\ \A key \in DOMAIN last_runs : Executions(key, last_runs[key]) >= 1

====
